---- MODULE Spec2Model ----
(***************************************************************************)
(* Query-time retrieval of the Clearpath RAG chatbot                       *)
(* (backend/rag/retrieve.py): the LRU cache of query embeddings and the    *)
(* top-K / threshold filter over the FAISS candidates; then the query      *)
(* router (backend/router/router.py) and the response evaluator            *)
(* (backend/evaluator/evaluator.py) as functions of their arguments; then  *)
(* the service of backend/main.py: the conversation histories, the request *)
(* log, _run_pipeline and the streaming handler.                           *)
(*                                                                         *)
(* Texts are sequences of code points (32 = space, 65..90 = A..Z,          *)
(* 97..122 = a..z).  Similarity scores are fixed-point numbers in units of *)
(* 1e-5, so 0.25 is 25000 and rounding to 4 decimals is rounding to a      *)
(* multiple of 10.                                                         *)
(***************************************************************************)
EXTENDS Integers, Sequences, FiniteSets, TLC

VARIABLES
    cache,      \* _query_cache: OrderedDict as a sequence of [k, v], oldest first
    encoder,    \* which sentence encoder embed_query wraps: "cased" or "uncased"
    clock,      \* number of cache uses so far (warm-up insertions included)
    lastUse,    \* history: key -> clock value of its last use (insertion or hit)
    inserted,   \* history: the set of keys ever inserted
    stored,     \* history: key -> the vector put under it when it was inserted
    firstRes,   \* history: key -> what the call that inserted the entry returned
    last,       \* record of the most recent finished retrieve call
    pc,         \* per thread: the statement of retrieve it is about to execute
    loc,        \* per thread: the locals of its retrieve call
    cand,       \* the index passed to retrieve: <<>> is the service's index, a
                \* non-empty list is a stub index answering every search with it
    asked,      \* the query text handed to classify_query
    routing,    \* what classify_query returned for it (done = FALSE: not called)
    answered,   \* the arguments of evaluate_response: [response, retrieved_chunks]
    evaluation, \* what evaluate_response returned (done = FALSE: not called)
    heap,       \* the list objects of the interpreter: heap[id] is a list of messages
    memory,     \* conversation_memory: conversation id -> id of its history list
    logs,       \* the entries log_request has appended, oldest first
    reqs,       \* the requests received so far, each with its locals and position
    turns       \* history: conversation id -> the turns whose _update_history
                \* has completed, oldest first

vars == <<cache, encoder, clock, lastUse, inserted, stored, firstRes, last, pc, loc, cand,
          asked, routing, answered, evaluation, heap, memory, logs, reqs, turns>>

(***************************************************************************)
(* Program constants.                                                      *)
(***************************************************************************)
_CACHE_MAX_SIZE == 128

SIMILARITY_THRESHOLD == 25000

TOP_K == 5

(***************************************************************************)
(* Bounds of the model.                                                    *)
(***************************************************************************)
MaxCalls == 3

MaxThreadCalls == 2

MaxStubCalls == 2


(***************************************************************************)
(* Text normalisation: query.strip().lower()                               *)
(***************************************************************************)
IsSpace(c) == c \in {9, 10, 11, 12, 13, 32}

LowerChar(c) == IF c >= 65 /\ c <= 90 THEN c + 32 ELSE c

Lower(s) == [i \in 1..Len(s) |-> LowerChar(s[i])]

RECURSIVE LStrip(_)
LStrip(s) == IF s # <<>> /\ IsSpace(Head(s)) THEN LStrip(Tail(s)) ELSE s

RECURSIVE RStrip(_)
RStrip(s) ==
    IF s # <<>> /\ IsSpace(s[Len(s)]) THEN RStrip(SubSeq(s, 1, Len(s) - 1)) ELSE s

Strip(s) == RStrip(LStrip(s))

\* hashlib.md5(...).hexdigest(): a digest of the bytes, taken as collision-free
md5hex(s) == [md5 |-> s]

_cache_key(query) == md5hex(Lower(Strip(query)))

(***************************************************************************)
(* collections.OrderedDict, as a sequence of entries in insertion order.   *)
(***************************************************************************)
Keys(od) == {od[i].k : i \in 1..Len(od)}

Has(od, key) == key \in Keys(od)

PosOf(od, key) == CHOOSE i \in 1..Len(od) : od[i].k = key

GetItem(od, key) == od[PosOf(od, key)].v

Without(od, key) == SelectSeq(od, LAMBDA e : e.k # key)

\* od.move_to_end(key), key present
MoveToEnd(od, key) == Append(Without(od, key), od[PosOf(od, key)])

\* od[key] = value: a present key keeps its position, a new key goes last
SetItem(od, key, value) ==
    IF Has(od, key)
    THEN [i \in 1..Len(od) |-> IF od[i].k = key THEN [k |-> key, v |-> value] ELSE od[i]]
    ELSE Append(od, [k |-> key, v |-> value])

\* od.popitem(last=False), od not empty
PopFirst(od) == Tail(od)

(***************************************************************************)
(* Values a cache slot or a local can hold.  An embedding is the array the *)
(* encoder produced for some text; None is Python's None; NotAnArray is a  *)
(* value of a mismatched type.                                             *)
(***************************************************************************)
None == [tag |-> "None", of |-> <<>>]

NotAnArray == [tag |-> "str", of |-> <<>>]

NdArray(text) == [tag |-> "ndarray", of |-> text]

\* What the sentence encoder makes of a text before embedding it: an uncased
\* encoder lower-cases and drops surrounding whitespace, a cased one does not.
EncoderInput(query) == IF encoder = "uncased" THEN Lower(Strip(query)) ELSE query

\* embed_query(query): deterministic for identical input (when it does not raise)
embed_query(query) == NdArray(EncoderInput(query))

(***************************************************************************)
(* _get_cached_embedding and _cache_embedding, as functions of the cache.  *)
(***************************************************************************)
\* variant: a hit does not refresh the entry's recency (FIFO instead of LRU)
_get_cached_embedding_fifo(od, query) ==
    LET key == _cache_key(query)
    IN  IF Has(od, key)
        THEN [od |-> od, value |-> GetItem(od, key)]
        ELSE [od |-> od, value |-> None]

_get_cached_embedding(od, query) ==
    LET key == _cache_key(query)
    IN  IF Has(od, key)
        THEN [od |-> MoveToEnd(od, key), value |-> GetItem(od, key)]
        ELSE [od |-> od, value |-> None]

\* variant: the capacity test is dropped, nothing is ever evicted
_cache_embedding_noevict(od, query, embedding) ==
    LET key == _cache_key(query)
    IN  MoveToEnd(SetItem(od, key, embedding), key)

_cache_embedding(od, query, embedding) ==
    LET key == _cache_key(query)
        od1 == SetItem(od, key, embedding)
        od2 == MoveToEnd(od1, key)
    IN  IF Len(od2) > _CACHE_MAX_SIZE THEN PopFirst(od2) ELSE od2

(***************************************************************************)
(* The corpus (chunk_metadata) and the FAISS index of the running service. *)
(***************************************************************************)
Chunk(id, doc, text) == [chunk_id |-> id, document_name |-> doc, text |-> text]

Corpus ==
    << \* The Pro plan costs $49/month and includes shortcuts.
       Chunk(0, "pricing.pdf",
             <<84, 104, 101, 32, 80, 114, 111, 32, 112, 108, 97, 110, 32, 99, 111, 115, 116, 115, 32, 36, 52, 57, 47, 109, 111, 110, 116, 104, 32, 97, 110, 100, 32, 105, 110, 99, 108, 117, 100, 101, 115, 32, 115, 104, 111, 114, 116, 99, 117, 116, 115, 46>>),
       \* Enterprise pricing is $99/month, billed yearly.
       Chunk(1, "pricing.pdf",
             <<69, 110, 116, 101, 114, 112, 114, 105, 115, 101, 32, 112, 114, 105, 99, 105, 110, 103, 32, 105, 115, 32, 36, 57, 57, 47, 109, 111, 110, 116, 104, 44, 32, 98, 105, 108, 108, 101, 100, 32, 121, 101, 97, 114, 108, 121, 46>>),
       \* Plans are billed monthly.
       Chunk(2, "pricing.pdf",
             <<80, 108, 97, 110, 115, 32, 97, 114, 101, 32, 98, 105, 108, 108, 101, 100, 32, 109, 111, 110, 116, 104, 108, 121, 46>>),
       \* Keyboard shortcuts open the command palette.
       Chunk(3, "shortcuts.pdf",
             <<75, 101, 121, 98, 111, 97, 114, 100, 32, 115, 104, 111, 114, 116, 99, 117, 116, 115, 32, 111, 112, 101, 110, 32, 116, 104, 101, 32, 99, 111, 109, 109, 97, 110, 100, 32, 112, 97, 108, 101, 116, 116, 101, 46>>),
       \* Press Ctrl to open shortcuts.
       Chunk(4, "shortcuts.pdf",
             <<80, 114, 101, 115, 115, 32, 67, 116, 114, 108, 32, 116, 111, 32, 111, 112, 101, 110, 32, 115, 104, 111, 114, 116, 99, 117, 116, 115, 46>>),
       \* Contact support for refunds.
       Chunk(5, "faq.pdf",
             <<67, 111, 110, 116, 97, 99, 116, 32, 115, 117, 112, 112, 111, 114, 116, 32, 102, 111, 114, 32, 114, 101, 102, 117, 110, 100, 115, 46>>) >>

Cand(score, idx) == [score |-> score, idx |-> idx]

\* the slot FAISS returns when it has fewer than k vectors
NoMatch == Cand(-1000000, -1)

IndexRows ==
    << << Cand(90000, 0), Cand(50000, 3), Cand(28125, 1), Cand(25000, 2), Cand(24999, 4) >>,
       << Cand(31006, 5), Cand(24000, 2), Cand(10000, 1), Cand(5000, 0), Cand(-2000, 3) >>,
       << Cand(20000, 1), Cand(19000, 0), Cand(3000, 5), Cand(0, 4), Cand(-100, 2) >> >>

RECURSIVE SumSeq(_)
SumSeq(s) == IF s = <<>> THEN 0 ELSE Head(s) + SumSeq(Tail(s))

\* index.search(query_embedding, TOP_K): a fixed function of the vector, TOP_K
\* candidates by descending inner product
IndexSearch(vec) ==
    IF cand # <<>> THEN cand ELSE IndexRows[(SumSeq(vec.of) % Len(IndexRows)) + 1]

(***************************************************************************)
(* The loop of retrieve over zip(scores[0], indices[0]).                   *)
(***************************************************************************)
\* round(float(score), 4): to the nearest multiple of 1e-4, ties to even
Round4(score) ==
    LET q == score \div 10
        r == score % 10
    IN  IF r < 5 THEN 10 * q
        ELSE IF r > 5 THEN 10 * (q + 1)
        ELSE IF q % 2 = 0 THEN 10 * q ELSE 10 * (q + 1)

Passage(chunk, score) ==
    [chunk_id |-> chunk.chunk_id, document_name |-> chunk.document_name,
     text |-> chunk.text, similarity_score |-> Round4(score)]

\* variant: the similarity threshold is not applied
Keep_nothreshold(c) == c.idx # -1

\* variant: the sentinel id is not tested, only the score
Keep_nosentinel(c) == ~(c.score < SIMILARITY_THRESHOLD)

Keep(c) == c.idx # -1 /\ ~(c.score < SIMILARITY_THRESHOLD)

\* chunks[idx] on a Python list: 0-based, a negative idx counts from the end
PyIndex(chunks, idx) == IF idx < 0 THEN chunks[Len(chunks) + idx + 1] ELSE chunks[idx + 1]

\* variant: each kept passage is put in front of the list instead of appended
RECURSIVE FilterLoop_prepend(_, _)
FilterLoop_prepend(cands, chunks) ==
    IF cands = <<>> THEN <<>>
    ELSE LET c == Head(cands)
             rest == FilterLoop_prepend(Tail(cands), chunks)
         IN  IF Keep(c) THEN rest \o <<Passage(PyIndex(chunks, c.idx), c.score)>> ELSE rest

RECURSIVE FilterLoop(_, _)
FilterLoop(cands, chunks) ==
    IF cands = <<>> THEN <<>>
    ELSE LET c == Head(cands)
             rest == FilterLoop(Tail(cands), chunks)
         IN  IF Keep(c) THEN <<Passage(PyIndex(chunks, c.idx), c.score)>> \o rest ELSE rest

(***************************************************************************)
(* retrieve(query, index, chunks) as one uninterrupted call.  embedRaises  *)
(* says whether embed_query raises if this call gets to invoke it.         *)
(***************************************************************************)
Returned(od, hit, nEmbed, vec) ==
    IF vec.tag = "ndarray"
    THEN [od |-> od, outcome |-> "ok", cache_hit |-> hit, embedCalls |-> nEmbed,
          searched |-> TRUE, results |-> FilterLoop(IndexSearch(vec), Corpus)]
    ELSE \* index.search rejects what is not a float32 array of the index's width
         [od |-> od, outcome |-> "SearchError", cache_hit |-> hit, embedCalls |-> nEmbed,
          searched |-> TRUE, results |-> <<>>]

\* variant: the cache is written but never consulted
retrieve_nolookup(od, query, embedRaises) ==
    IF embedRaises
    THEN [od |-> od, outcome |-> "EmbedError", cache_hit |-> FALSE,
          embedCalls |-> 1, searched |-> FALSE, results |-> <<>>]
    ELSE Returned(_cache_embedding(od, query, embed_query(query)),
                  FALSE, 1, embed_query(query))

\* variant: a failing embed_query is swallowed and an empty vector is cached
\* and searched instead
retrieve_fallback(od, query, embedRaises) ==
    LET got == _get_cached_embedding(od, query)
        cached == got.value
        emb == IF embedRaises THEN NdArray(<<>>) ELSE embed_query(query)
    IN  IF cached # None
        THEN Returned(got.od, TRUE, 0, cached)
        ELSE Returned(_cache_embedding(got.od, query, emb), FALSE, 1, emb)

\* variant: a hit re-embeds the query text and stores the new vector
retrieve_refresh(od, query, embedRaises) ==
    LET got == _get_cached_embedding(od, query)
        cached == got.value
    IN  IF cached # None
        THEN IF embedRaises
             THEN Returned(got.od, TRUE, 1, cached)
             ELSE Returned(_cache_embedding(got.od, query, embed_query(query)),
                           TRUE, 1, embed_query(query))
        ELSE IF embedRaises
             THEN [od |-> got.od, outcome |-> "EmbedError", cache_hit |-> FALSE,
                   embedCalls |-> 1, searched |-> FALSE, results |-> <<>>]
             ELSE Returned(_cache_embedding(got.od, query, embed_query(query)),
                           FALSE, 1, embed_query(query))

\* variant: a hit answers without searching the index
retrieve_hitempty(od, query, embedRaises) ==
    LET got == _get_cached_embedding(od, query)
        cached == got.value
    IN  IF cached # None
        THEN [od |-> got.od, outcome |-> "ok", cache_hit |-> TRUE, embedCalls |-> 0,
              searched |-> FALSE, results |-> <<>>]
        ELSE IF embedRaises
             THEN [od |-> got.od, outcome |-> "EmbedError", cache_hit |-> FALSE,
                   embedCalls |-> 1, searched |-> FALSE, results |-> <<>>]
             ELSE Returned(_cache_embedding(got.od, query, embed_query(query)),
                           FALSE, 1, embed_query(query))

retrieve(od, query, embedRaises) ==
    LET got == _get_cached_embedding(od, query)
        cached == got.value
    IN  IF cached # None
        THEN Returned(got.od, TRUE, 0, cached)
        ELSE IF embedRaises
             THEN [od |-> got.od, outcome |-> "EmbedError", cache_hit |-> FALSE,
                   embedCalls |-> 1, searched |-> FALSE, results |-> <<>>]
             ELSE Returned(_cache_embedding(got.od, query, embed_query(query)),
                           FALSE, 1, embed_query(query))

(***************************************************************************)
(* The service between requests: every handler of main.py is an async def  *)
(* that calls retrieve without awaiting inside it, so calls are serialised.*)
(* The cache starts empty; the warm states are the cache after Warm        *)
(* distinct earlier queries FillerQuery(1..Warm) have been served.         *)
(***************************************************************************)
Threads == {"t1", "t2"}

FillerQuery(i) == <<113, 200 + i>>

WarmSizes == {0, _CACHE_MAX_SIZE - 1, _CACHE_MAX_SIZE}

WarmCache(n) ==
    [i \in 1..n |-> [k |-> _cache_key(FillerQuery(i)), v |-> embed_query(FillerQuery(i))]]

\* "hi", "Hi", " hi ", "a", and the oldest warm-up query
RawQueries == { <<104, 105>>, <<72, 105>>, <<32, 104, 105, 32>>, <<97>>, FillerQuery(1) }

NoCall ==
    [n |-> 0, query |-> <<>>, key |-> _cache_key(<<>>), outcome |-> "none",
     cache_hit |-> FALSE, embedCalls |-> 0, searched |-> FALSE, results |-> <<>>,
     evicted |-> {}, present |-> FALSE, held |-> None, embedFails |-> FALSE]

IdleLocals == [query |-> <<>>, cached |-> None, embedding |-> None]

\* classify_query and evaluate_response are not called by retrieve
NotRouted ==
    [done |-> FALSE, classification |-> "", model_used |-> "", complex_score |-> 0,
     signals |-> <<>>]

NotEvaluated == [done |-> FALSE, raised |-> "", confidence |-> "", flags |-> <<>>]

RouterIdle == asked = <<>> /\ routing = NotRouted

\* no request has been received and no conversation has a history
ServiceIdle ==
    /\ heap = <<>>
    /\ memory = [conv \in {} |-> 0]
    /\ logs = <<>>
    /\ reqs = <<>>
    /\ turns = [conv \in {} |-> <<>>]

ServiceFrame == UNCHANGED <<heap, memory, logs, reqs, turns>>

EvaluatorIdle ==
    answered = [response |-> <<>>, retrieved_chunks |-> <<>>] /\ evaluation = NotEvaluated

InitCache(n, index) ==
    /\ RouterIdle
    /\ ServiceIdle
    /\ EvaluatorIdle
    /\ encoder \in {"cased", "uncased"}
    /\ cache = WarmCache(n)
    /\ clock = n
    /\ lastUse = [key \in Keys(cache) |-> PosOf(cache, key)]
    /\ inserted = Keys(cache)
    /\ stored = [key \in Keys(cache) |-> GetItem(cache, key)]
    /\ firstRes = [key \in {} |-> <<>>]
    /\ last = NoCall
    /\ pc = [t \in Threads |-> "idle"]
    /\ loc = [t \in Threads |-> IdleLocals]
    /\ cand = index

Init == \E n \in WarmSizes : InitCache(n, <<>>)

\* the bookkeeping of one finished call that left the cache as od
Finished(query, embedRaises, r) ==
    LET key == _cache_key(query)
        used == r.outcome # "EmbedError"
        isInsert == ~r.cache_hit /\ r.outcome = "ok"
    IN  /\ cache' = r.od
        /\ clock' = IF used THEN clock + 1 ELSE clock
        /\ lastUse' = [k \in Keys(r.od) |->
                          IF (k = key /\ used) \/ k \notin DOMAIN lastUse
                          THEN clock + 1 ELSE lastUse[k]]
        /\ inserted' = inserted \cup (Keys(r.od) \ Keys(cache))
        /\ stored' = [k \in Keys(r.od) |->
                         IF k \in DOMAIN stored THEN stored[k] ELSE GetItem(r.od, k)]
        /\ firstRes' = [k \in (DOMAIN firstRes \cup (IF isInsert THEN {key} ELSE {}))
                                 \cap Keys(r.od)
                            |-> IF isInsert /\ k = key THEN r.results ELSE firstRes[k]]
        /\ last' = [n |-> last.n + 1, query |-> query, key |-> key, outcome |-> r.outcome,
                    cache_hit |-> r.cache_hit, embedCalls |-> r.embedCalls,
                    searched |-> r.searched, results |-> r.results,
                    evicted |-> Keys(cache) \ Keys(r.od), present |-> Has(cache, key),
                    held |-> IF Has(cache, key) THEN GetItem(cache, key) ELSE None,
                    embedFails |-> embedRaises]

Retrieve(query, embedRaises) ==
    /\ last.n < MaxCalls
    /\ Finished(query, embedRaises, retrieve(cache, query, embedRaises))
    /\ UNCHANGED <<encoder, pc, loc, cand, asked, routing, answered, evaluation>>
    /\ ServiceFrame

Next == \E query \in RawQueries, embedRaises \in BOOLEAN : Retrieve(query, embedRaises)

Spec == Init /\ [][Next]_vars

(***************************************************************************)
(* C1: after every call to retrieve, whatever the sequence of hits and     *)
(* misses, the query-embedding cache holds at most 128 entries.            *)
(***************************************************************************)
C1_CacheBounded == Len(cache) <= _CACHE_MAX_SIZE

\* a miss on a full cache has just inserted a key and evicted another
C1_Witness ==
    /\ last.outcome = "ok" /\ ~last.cache_hit
    /\ last.evicted # {}
    /\ Len(cache) = _CACHE_MAX_SIZE

(***************************************************************************)
(* C2: a call whose normalised key is in the cache when it starts does not *)
(* invoke embed_query and returns exactly the passages and scores that the *)
(* call which inserted the entry returned.                                 *)
(***************************************************************************)
C2_HitReusesVector ==
    (last.n > 0 /\ last.present) =>
        /\ last.embedCalls = 0
        /\ last.outcome = "ok"
        /\ last.key \in DOMAIN firstRes => last.results = firstRes[last.key]

\* a hit by a text that differs from the inserting text and whose own embedding
\* would have found other passages
C2_Witness ==
    /\ last.n > 0 /\ last.present /\ last.key \in DOMAIN firstRes
    /\ last.results = firstRes[last.key]
    /\ last.results # FilterLoop(IndexSearch(embed_query(last.query)), Corpus)

(***************************************************************************)
(* C3: eviction is least-recently-used.  A miss on a full cache removes    *)
(* exactly one entry, the one whose last use (insertion or hit) is oldest; *)
(* no other call removes anything.  Hence after capacity+1 distinct        *)
(* insertions and no hit the first-inserted key is gone.                   *)
(***************************************************************************)
Oldest(key) == \A k \in Keys(cache) \ {key} : lastUse[key] < lastUse[k]

C3_EvictStep ==
    last'.n # last.n =>
        IF last'.outcome = "ok" /\ ~last'.present /\ Len(cache) = _CACHE_MAX_SIZE
        THEN \E victim \in Keys(cache) :
                /\ Oldest(victim)
                /\ Keys(cache') = (Keys(cache) \ {victim}) \cup {last'.key}
        ELSE Keys(cache) \subseteq Keys(cache')

C3_FirstInsertedGone ==
    (Cardinality(inserted) = _CACHE_MAX_SIZE + 1 /\ clock = Cardinality(inserted))
        => ~Has(cache, _cache_key(FillerQuery(1)))

C3_LRU == [][C3_EvictStep]_vars /\ []C3_FirstInsertedGone

\* the oldest key was hit and then survived the eviction that a new key caused,
\* which removed the never-touched second-oldest key instead
C3_Witness ==
    /\ last.n > 1 /\ ~last.cache_hit /\ last.outcome = "ok"
    /\ last.evicted = {_cache_key(FillerQuery(2))}
    /\ Has(cache, _cache_key(FillerQuery(1)))

(***************************************************************************)
(* C7: when embed_query fails during retrieve the failure reaches the      *)
(* caller: no result is returned, the index is not searched, and the cache *)
(* (contents and recency order) is what it was before the call.            *)
(***************************************************************************)
C7_EmbedFailureStep ==
    (last'.n # last.n /\ last'.embedFails /\ last'.embedCalls > 0) =>
        /\ last'.outcome = "EmbedError"
        /\ ~last'.searched
        /\ last'.results = <<>>
        /\ cache' = cache

C7_EmbedFailurePropagates == [][C7_EmbedFailureStep]_vars

\* a failed call on a cache that earlier calls had filled and reordered
C7_Witness ==
    /\ last.n > 1 /\ last.outcome = "EmbedError" /\ ~last.present
    /\ Len(cache) = _CACHE_MAX_SIZE

ScoreVals == {-2000, 24999, 25000, 28125, 31006}

NoMatchHigh == Cand(1000000, -1)

Descending(n) == {sc \in [1..n -> ScoreVals] : \A j \in 1..(n - 1) : sc[j] >= sc[j + 1]}

StubResults ==
    UNION { { [j \in 1..TOP_K |->
                 IF j <= n THEN Cand(sc[j], (a + (j - 1) * step) % Len(Corpus)) ELSE sentinel]
              : sc \in Descending(n), a \in 0..(Len(Corpus) - 1), step \in {1, 5},
                sentinel \in {NoMatch, NoMatchHigh} }
            : n \in 0..TOP_K }

\* "hi" and "Hi"
StubQueries == { <<104, 105>>, <<72, 105>> }

InitFilter ==
    /\ \E index \in StubResults : InitCache(0, index)
    /\ encoder = "cased"

RetrieveOnStub(query) ==
    /\ last.n < MaxStubCalls
    /\ Finished(query, FALSE, retrieve(cache, query, FALSE))
    /\ UNCHANGED <<encoder, pc, loc, cand, asked, routing, answered, evaluation>>
    /\ ServiceFrame

NextFilter == \E query \in StubQueries : RetrieveOnStub(query)

SpecFilter == InitFilter /\ [][NextFilter]_vars

(***************************************************************************)
(* C4: whatever the index returns, retrieve never returns a passage whose  *)
(* (rounded) similarity_score is below 0.25 and never more than 5 passages.*)
(***************************************************************************)
C4_ThresholdAndTopK ==
    last.n > 0 =>
        /\ Len(last.results) <= TOP_K
        /\ \A i \in 1..Len(last.results) :
              last.results[i].similarity_score >= SIMILARITY_THRESHOLD

\* a candidate exactly at the threshold was kept while a lower one was dropped
C4_Witness ==
    /\ last.n > 0
    /\ \E i \in 1..Len(last.results) : last.results[i].similarity_score = SIMILARITY_THRESHOLD
    /\ \E j \in 1..Len(cand) : cand[j].idx # -1 /\ cand[j].score < SIMILARITY_THRESHOLD

(***************************************************************************)
(* C5: candidates with the sentinel id -1 are skipped, whatever score they *)
(* carry, and never show up as passages; when every candidate is a         *)
(* sentinel (empty index) retrieve returns the empty list without raising. *)
(***************************************************************************)
Matches == {j \in 1..Len(cand) : cand[j].idx # -1}

C5_SentinelsSkipped ==
    last.n > 0 =>
        /\ last.outcome = "ok"
        /\ Len(last.results) <= Cardinality(Matches)
        /\ Matches = {} => last.results = <<>>

\* sentinel slots whose score is above the threshold, next to a real match
C5_Witness ==
    /\ last.n > 0 /\ last.outcome = "ok"
    /\ \E j \in 1..Len(cand) : cand[j].idx = -1 /\ cand[j].score >= SIMILARITY_THRESHOLD
    /\ Len(last.results) = Cardinality(Matches) /\ Matches # {}

(***************************************************************************)
(* C6: the output is a subsequence of the index's candidates in the same   *)
(* order, each record carrying the chunk_id, document_name and text of the *)
(* corpus entry at the candidate's index and the candidate's score rounded *)
(* to 4 decimals; so the output scores are non-increasing.                 *)
(***************************************************************************)
IsRecordOf(p, c) ==
    /\ c.idx >= 0 /\ c.idx < Len(Corpus)
    /\ p.chunk_id = Corpus[c.idx + 1].chunk_id
    /\ p.document_name = Corpus[c.idx + 1].document_name
    /\ p.text = Corpus[c.idx + 1].text
    /\ p.similarity_score % 10 = 0
    /\ p.similarity_score - c.score <= 5 /\ c.score - p.similarity_score <= 5

RECURSIVE IsSubsequence(_, _)
IsSubsequence(res, cands) ==
    IF res = <<>> THEN TRUE
    ELSE IF cands = <<>> THEN FALSE
    ELSE \/ IsRecordOf(Head(res), Head(cands)) /\ IsSubsequence(Tail(res), Tail(cands))
         \/ IsSubsequence(res, Tail(cands))

C6_OrderPreserved ==
    last.n > 0 =>
        /\ IsSubsequence(last.results, cand)
        /\ \A i \in 1..(Len(last.results) - 1) :
              last.results[i].similarity_score >= last.results[i + 1].similarity_score

\* several passages of different scores kept, others dropped
C6_Witness ==
    /\ last.n > 0 /\ Len(last.results) >= 2 /\ Len(last.results) < Cardinality(Matches)
    /\ last.results[1].similarity_score > last.results[2].similarity_score
    /\ last.results[1].chunk_id > last.results[2].chunk_id

(***************************************************************************)
(* Fault injection: something outside retrieve overwrites the value held   *)
(* under one cached key with None or with a value that is no array.        *)
(***************************************************************************)
Corrupt(i, value) ==
    /\ last.n < MaxCalls
    /\ i \in 1..Len(cache)
    /\ cache[i].k \in {_cache_key(q) : q \in RawQueries}
    /\ \A j \in 1..Len(cache) : cache[j].v.tag = "ndarray"
    /\ cache' = [cache EXCEPT ![i].v = value]
    /\ UNCHANGED <<encoder, clock, lastUse, inserted, stored, firstRes, last, pc, loc, cand>>
    /\ ServiceFrame
    /\ UNCHANGED <<asked, routing, answered, evaluation>>

InitFault == InitCache(_CACHE_MAX_SIZE, <<>>) /\ encoder = "cased"

NextFault ==
    \/ \E query \in RawQueries, embedRaises \in BOOLEAN : Retrieve(query, embedRaises)
    \/ \E i \in 1..Len(cache), value \in {None, NotAnArray} : Corrupt(i, value)

SpecFault == InitFault /\ [][NextFault]_vars

(***************************************************************************)
(* C8: when the entry stored under the query's key is corrupted or of a    *)
(* mismatched type, retrieve treats the lookup as a miss: it recomputes    *)
(* the embedding with embed_query and completes the request.               *)
(***************************************************************************)
C8_CorruptEntryIsMiss ==
    (last.n > 0 /\ last.present /\ last.held.tag # "ndarray" /\ ~last.embedFails) =>
        /\ last.embedCalls = 1
        /\ last.outcome = "ok"

(***************************************************************************)
(* retrieve called from several threads at once.  The module takes no      *)
(* lock, so the interpreter may switch threads between any two statements; *)
(* each OrderedDict operation is one uninterrupted step.  A pc value names *)
(* the line of retrieve.py the thread executes next.                       *)
(***************************************************************************)
\* "hi", "Hi" and the oldest warm-up query
ThreadQueries == { <<104, 105>>, <<72, 105>>, FillerQuery(1) }

Started == last.n + Cardinality({t \in Threads : pc[t] # "idle"})

KeyOf(t) == _cache_key(loc[t].query)

Goto(t, line) == pc' = [pc EXCEPT ![t] = line]

\* what no statement of a threaded call touches
ThreadFrame ==
    UNCHANGED <<encoder, clock, lastUse, stored, firstRes, cand, asked, routing, answered,
                evaluation, heap, memory, logs, reqs, turns>>

\* the call of thread t ends: it returns results or an exception leaves it
Ends(t, outcome, hit, nEmbed, searched, results) ==
    /\ pc' = [pc EXCEPT ![t] = "idle"]
    /\ loc' = [loc EXCEPT ![t] = IdleLocals]
    /\ last' = [n |-> last.n + 1, query |-> loc[t].query, key |-> KeyOf(t),
                outcome |-> outcome, cache_hit |-> hit, embedCalls |-> nEmbed,
                searched |-> searched, results |-> results, evicted |-> {},
                present |-> hit, held |-> loc[t].cached, embedFails |-> outcome = "EmbedError"]

T_Call(t, query) ==
    /\ pc[t] = "idle"
    /\ ThreadFrame
    /\ Started < MaxThreadCalls
    /\ pc' = [pc EXCEPT ![t] = "L33"]
    /\ loc' = [loc EXCEPT ![t] = [IdleLocals EXCEPT !.query = query]]
    /\ UNCHANGED <<cache, inserted, last>>

\* if key in _query_cache:   (else: return None, and retrieve goes to embed)
T_L33(t) ==
    /\ pc[t] = "L33"
    /\ ThreadFrame
    /\ Goto(t, IF Has(cache, KeyOf(t)) THEN "L34" ELSE "L71")
    /\ UNCHANGED <<cache, inserted, last, loc>>

\* _query_cache.move_to_end(key)
T_L34(t) ==
    /\ pc[t] = "L34"
    /\ ThreadFrame
    /\ IF Has(cache, KeyOf(t))
       THEN /\ cache' = MoveToEnd(cache, KeyOf(t))
            /\ Goto(t, "L35")
            /\ UNCHANGED <<last, loc>>
       ELSE /\ Ends(t, "KeyError", FALSE, 0, FALSE, <<>>)
            /\ UNCHANGED cache
    /\ UNCHANGED inserted

\* return _query_cache[key];  cached is not None -> query_embedding = cached
T_L35(t) ==
    /\ pc[t] = "L35"
    /\ ThreadFrame
    /\ IF Has(cache, KeyOf(t))
       THEN /\ loc' = [loc EXCEPT ![t].cached = GetItem(cache, KeyOf(t)),
                                  ![t].embedding = GetItem(cache, KeyOf(t))]
            /\ Goto(t, IF GetItem(cache, KeyOf(t)) # None THEN "L75" ELSE "L71")
            /\ UNCHANGED last
       ELSE Ends(t, "KeyError", FALSE, 0, FALSE, <<>>)
    /\ UNCHANGED <<cache, inserted>>

\* query_embedding = embed_query(query)
T_L71(t, embedRaises) ==
    /\ pc[t] = "L71"
    /\ ThreadFrame
    /\ IF embedRaises
       THEN Ends(t, "EmbedError", FALSE, 1, FALSE, <<>>)
       ELSE /\ loc' = [loc EXCEPT ![t].embedding = embed_query(loc[t].query)]
            /\ Goto(t, "L42")
            /\ UNCHANGED last
    /\ UNCHANGED <<cache, inserted>>

\* _query_cache[key] = embedding
T_L42(t) ==
    /\ pc[t] = "L42"
    /\ ThreadFrame
    /\ cache' = SetItem(cache, KeyOf(t), loc[t].embedding)
    /\ inserted' = inserted \cup {KeyOf(t)}
    /\ Goto(t, "L43")
    /\ UNCHANGED <<last, loc>>

\* _query_cache.move_to_end(key)
T_L43(t) ==
    /\ pc[t] = "L43"
    /\ ThreadFrame
    /\ IF Has(cache, KeyOf(t))
       THEN /\ cache' = MoveToEnd(cache, KeyOf(t))
            /\ Goto(t, "L44")
            /\ UNCHANGED <<last, loc>>
       ELSE /\ Ends(t, "KeyError", FALSE, 1, FALSE, <<>>)
            /\ UNCHANGED cache
    /\ UNCHANGED inserted

\* if len(_query_cache) > _CACHE_MAX_SIZE:
T_L44(t) ==
    /\ pc[t] = "L44"
    /\ ThreadFrame
    /\ Goto(t, IF Len(cache) > _CACHE_MAX_SIZE THEN "L45" ELSE "L75")
    /\ UNCHANGED <<cache, inserted, last, loc>>

\* _query_cache.popitem(last=False)
T_L45(t) ==
    /\ pc[t] = "L45"
    /\ ThreadFrame
    /\ IF cache # <<>>
       THEN /\ cache' = PopFirst(cache)
            /\ Goto(t, "L75")
            /\ UNCHANGED <<last, loc>>
       ELSE /\ Ends(t, "KeyError", FALSE, 1, FALSE, <<>>)
            /\ UNCHANGED cache
    /\ UNCHANGED inserted

\* scores, indices = index.search(query_embedding, TOP_K); the loop; return results
T_L75(t) ==
    /\ pc[t] = "L75"
    /\ ThreadFrame
    /\ LET r == Returned(cache, loc[t].cached # None,
                         IF loc[t].cached # None THEN 0 ELSE 1, loc[t].embedding)
       IN  Ends(t, r.outcome, r.cache_hit, r.embedCalls, r.searched, r.results)
    /\ UNCHANGED <<cache, inserted>>

InitThreads == InitCache(_CACHE_MAX_SIZE, <<>>) /\ encoder = "cased"

NextThreads ==
    \/ \E t \in Threads, query \in ThreadQueries : T_Call(t, query)
    \/ \E t \in Threads : T_L33(t)
    \/ \E t \in Threads : T_L34(t)
    \/ \E t \in Threads : T_L35(t)
    \/ \E t \in Threads, embedRaises \in BOOLEAN : T_L71(t, embedRaises)
    \/ \E t \in Threads : T_L42(t)
    \/ \E t \in Threads : T_L43(t)
    \/ \E t \in Threads : T_L44(t)
    \/ \E t \in Threads : T_L45(t)
    \/ \E t \in Threads : T_L75(t)

SpecThreads == InitThreads /\ [][NextThreads]_vars

(***************************************************************************)
(* C10: under concurrent invocations the insert-then-evict sequence is     *)
(* atomic: an entry is evicted only while the size exceeds 128, and when   *)
(* no call is in progress the cache holds at least min(128, number of      *)
(* distinct keys ever inserted) entries (no double eviction).              *)
(***************************************************************************)
Min(a, b) == IF a < b THEN a ELSE b

C10_EvictOnlyWhenOver == Len(cache') < Len(cache) => Len(cache) > _CACHE_MAX_SIZE

C10_NoLostEntry ==
    (\A t \in Threads : pc[t] = "idle") =>
        Len(cache) >= Min(_CACHE_MAX_SIZE, Cardinality(inserted))

C10_AtomicInsertEvict == [][C10_EvictOnlyWhenOver]_vars /\ []C10_NoLostEntry

(***************************************************************************)
(* C11: under concurrent invocations the lookup's membership test, its     *)
(* move to the most-recent position and its read are atomic: a thread that *)
(* found its key at line 33 still finds it at lines 34 and 35, and no call *)
(* ends with the KeyError of a failed lookup.                              *)
(***************************************************************************)
C11_KeyStillThere ==
    \A t \in Threads : pc[t] \in {"L34", "L35"} => Has(cache, KeyOf(t))

C11_AtomicLookup == C11_KeyStillThere /\ last.outcome # "KeyError"

(***************************************************************************)
(* Text operations of the router (backend/router/router.py) and of the     *)
(* evaluator (backend/evaluator/evaluator.py): substring tests, splitting  *)
(* and regular expressions over sequences of code points.  A regular       *)
(* expression is a tree; After gives the positions at which a match that   *)
(* starts at one of the positions `from` can end (position p is the place  *)
(* before text[p], Len(text) + 1 is the end of the text).                  *)
(***************************************************************************)
Digits == 48..57

Letters == (65..90) \cup (97..122)

\* \w of re on ASCII text: letters, digits and the underscore
WordChars == Letters \cup Digits \cup {95}

\* \s of re on ASCII text
SpaceChars == {9, 10, 11, 12, 13, 32}

\* kw in text
Contains(text, kw) ==
    \E i \in 1..(Len(text) - Len(kw) + 1) :
        \A j \in 1..Len(kw) : text[i + j - 1] = kw[j]

\* text.count(c) for a one-character c
Count(text, c) == Cardinality({i \in 1..Len(text) : text[i] = c})

\* the maximal runs of characters outside delims, in text order: the non-empty
\* pieces of re.split(r'[...]+', text), and text.split() for whitespace
Runs(text, delims) ==
    LET inside(i) == i >= 1 /\ i <= Len(text) /\ text[i] \notin delims
        starts == {i \in 1..Len(text) : inside(i) /\ ~inside(i - 1)}
        start(k) == CHOOSE i \in starts : Cardinality({j \in starts : j < i}) = k - 1
        end(i) == CHOOSE j \in i..Len(text) :
                      ~inside(j + 1) /\ \A m \in i..j : inside(m)
    IN  [k \in 1..Cardinality(starts) |-> SubSeq(text, start(k), end(start(k)))]

\* str.split()
Split(text) == Runs(text, SpaceChars)

\* the nodes of a regular expression
Chars(set) == [op |-> "set", chars |-> set]

Cat(parts) == [op |-> "cat", parts |-> parts]

Alt(parts) == [op |-> "alt", parts |-> parts]

Opt(r) == [op |-> "opt", of |-> r]

Plus(r) == [op |-> "plus", of |-> r]

Star(r) == [op |-> "star", of |-> r]

WordBoundary == [op |-> "b"]

LineStart == [op |-> "^"]

Lit(text) == Cat([i \in 1..Len(text) |-> Chars({text[i]})])

IsWordAt(text, p) == p >= 1 /\ p <= Len(text) /\ text[p] \in WordChars

RECURSIVE After(_, _, _)
RECURSIVE AfterCat(_, _, _)
RECURSIVE AfterPlus(_, _, _, _)
AfterCat(parts, text, from) ==
    IF Len(parts) = 0 \/ from = {} THEN from
    ELSE AfterCat(Tail(parts), text, After(Head(parts), text, from))

AfterPlus(r, text, reached, frontier) ==
    LET more == After(r, text, frontier) \ reached
    IN  IF more = {} THEN reached ELSE AfterPlus(r, text, reached \cup more, more)

After(r, text, from) ==
    CASE r.op = "set" -> {p + 1 : p \in {q \in from : q <= Len(text) /\ text[q] \in r.chars}}
      [] r.op = "cat" -> AfterCat(r.parts, text, from)
      [] r.op = "alt" -> UNION {After(r.parts[i], text, from) : i \in 1..Len(r.parts)}
      [] r.op = "opt" -> from \cup After(r.of, text, from)
      [] r.op = "plus" -> AfterPlus(r.of, text, After(r.of, text, from), After(r.of, text, from))
      [] r.op = "star" ->
            from \cup AfterPlus(r.of, text, After(r.of, text, from), After(r.of, text, from))
      [] r.op = "b" -> {p \in from : IsWordAt(text, p - 1) # IsWordAt(text, p)}
      [] r.op = "^" -> from \cap {1}

\* re.search(pattern, text) is not None
Search(pattern, text) == After(pattern, text, 1..(Len(text) + 1)) # {}

\* re.match(pattern, text) is not None
Match(pattern, text) == After(pattern, text, {1}) # {}

SetMax(set) == CHOOSE m \in set : \A x \in set : x <= m

\* re.findall(pattern, text) for a pattern without groups that matches no
\* empty string and whose greedy match is its longest match: the leftmost
\* match, then the leftmost match after its end, and so on
RECURSIVE FindAllFrom(_, _, _, _)
FindAllFrom(pattern, text, starts, i) ==
    LET rest == {j \in starts : j >= i}
        first == CHOOSE j \in rest : \A m \in rest : j <= m
        stop == SetMax(After(pattern, text, {first}))
    IN  IF rest = {} THEN <<>>
        ELSE <<SubSeq(text, first, stop - 1)>> \o FindAllFrom(pattern, text, starts, stop)

FindAll(pattern, text) ==
    FindAllFrom(pattern, text,
                {j \in 1..Len(text) : After(pattern, text, {j}) # {}}, 1)

(***************************************************************************)
(* The query router (backend/router/router.py).  A signal is a record      *)
(* [kind, words, count]: the name before the parenthesis of the signal     *)
(* string, the keywords it lists and the number it reports.                *)
(***************************************************************************)
MODELS_onemodel ==
    [simple |-> "llama-3.1-8b-instant", complex |-> "llama-3.1-8b-instant"]

MODELS == [simple |-> "llama-3.1-8b-instant", complex |-> "llama-3.3-70b-versatile"]

COMPLEX_THRESHOLD == 2

\* \s+
Spaces == Plus(Chars(SpaceChars))

\* variant: only the question phrases "why", "how does", "what happens"
REASONING_KEYWORDS_questions ==
    << <<119, 104, 121>>,
       <<104, 111, 119, 32, 100, 111, 101, 115>>,
       <<119, 104, 97, 116, 32, 104, 97, 112, 112, 101, 110, 115>> >>

\*   "explain"  "compare"  "analyze"  "difference"
\*   "why"  "how does"  "what happens"  "describe"
\*   "elaborate"  "detail"  "advantages"  "disadvantages"
\*   "trade-off"  "tradeoff"  "versus"  "vs"
\*   "recommend"  "suggest"  "best practice"  "architecture"
\*   "design"  "strategy"  "approach"  "workflow"
\*   "process"  "troubleshoot"  "debug"  "diagnose"
\*   "investigate"  "complex"  "advanced"
REASONING_KEYWORDS ==
    << <<101, 120, 112, 108, 97, 105, 110>>,
       <<99, 111, 109, 112, 97, 114, 101>>,
       <<97, 110, 97, 108, 121, 122, 101>>,
       <<100, 105, 102, 102, 101, 114, 101, 110, 99, 101>>,
       <<119, 104, 121>>,
       <<104, 111, 119, 32, 100, 111, 101, 115>>,
       <<119, 104, 97, 116, 32, 104, 97, 112, 112, 101, 110, 115>>,
       <<100, 101, 115, 99, 114, 105, 98, 101>>,
       <<101, 108, 97, 98, 111, 114, 97, 116, 101>>,
       <<100, 101, 116, 97, 105, 108>>,
       <<97, 100, 118, 97, 110, 116, 97, 103, 101, 115>>,
       <<100, 105, 115, 97, 100, 118, 97, 110, 116, 97, 103, 101, 115>>,
       <<116, 114, 97, 100, 101, 45, 111, 102, 102>>,
       <<116, 114, 97, 100, 101, 111, 102, 102>>,
       <<118, 101, 114, 115, 117, 115>>,
       <<118, 115>>,
       <<114, 101, 99, 111, 109, 109, 101, 110, 100>>,
       <<115, 117, 103, 103, 101, 115, 116>>,
       <<98, 101, 115, 116, 32, 112, 114, 97, 99, 116, 105, 99, 101>>,
       <<97, 114, 99, 104, 105, 116, 101, 99, 116, 117, 114, 101>>,
       <<100, 101, 115, 105, 103, 110>>,
       <<115, 116, 114, 97, 116, 101, 103, 121>>,
       <<97, 112, 112, 114, 111, 97, 99, 104>>,
       <<119, 111, 114, 107, 102, 108, 111, 119>>,
       <<112, 114, 111, 99, 101, 115, 115>>,
       <<116, 114, 111, 117, 98, 108, 101, 115, 104, 111, 111, 116>>,
       <<100, 101, 98, 117, 103>>,
       <<100, 105, 97, 103, 110, 111, 115, 101>>,
       <<105, 110, 118, 101, 115, 116, 105, 103, 97, 116, 101>>,
       <<99, 111, 109, 112, 108, 101, 120>>,
       <<97, 100, 118, 97, 110, 99, 101, 100>> >>

\*   "not working"  "broken"  "bug"  "crash"
\*   "error"  "issue"  "problem"  "fail"
\*   "can't"  "cannot"  "unable"  "stuck"
\*   "wrong"  "fix"  "help me"  "urgent"
\*   "frustrated"
COMPLAINT_KEYWORDS ==
    << <<110, 111, 116, 32, 119, 111, 114, 107, 105, 110, 103>>,
       <<98, 114, 111, 107, 101, 110>>,
       <<98, 117, 103>>,
       <<99, 114, 97, 115, 104>>,
       <<101, 114, 114, 111, 114>>,
       <<105, 115, 115, 117, 101>>,
       <<112, 114, 111, 98, 108, 101, 109>>,
       <<102, 97, 105, 108>>,
       <<99, 97, 110, 39, 116>>,
       <<99, 97, 110, 110, 111, 116>>,
       <<117, 110, 97, 98, 108, 101>>,
       <<115, 116, 117, 99, 107>>,
       <<119, 114, 111, 110, 103>>,
       <<102, 105, 120>>,
       <<104, 101, 108, 112, 32, 109, 101>>,
       <<117, 114, 103, 101, 110, 116>>,
       <<102, 114, 117, 115, 116, 114, 97, 116, 101, 100>> >>

COMPARISON_PATTERNS ==
    << \* \bvs\.?\b
       Cat(<<WordBoundary, Lit(<<118, 115>>), Opt(Chars({46})), WordBoundary>>),
       \* \bversus\b
       Cat(<<WordBoundary, Lit(<<118, 101, 114, 115, 117, 115>>), WordBoundary>>),
       \* \bcompared?\s+to\b
       Cat(<<WordBoundary, Lit(<<99, 111, 109, 112, 97, 114, 101>>), Opt(Chars({100})), Spaces, Lit(<<116, 111>>), WordBoundary>>),
       \* \bdifference\s+between\b
       Cat(<<WordBoundary, Lit(<<100, 105, 102, 102, 101, 114, 101, 110, 99, 101>>), Spaces, Lit(<<98, 101, 116, 119, 101, 101, 110>>), WordBoundary>>),
       \* \bwhich\s+(one|plan|option)\b
       Cat(<<WordBoundary, Lit(<<119, 104, 105, 99, 104>>), Spaces, Alt(<<Lit(<<111, 110, 101>>), Lit(<<112, 108, 97, 110>>), Lit(<<111, 112, 116, 105, 111, 110>>)>>), WordBoundary>>),
       \* \bbetter\s+than\b
       Cat(<<WordBoundary, Lit(<<98, 101, 116, 116, 101, 114>>), Spaces, Lit(<<116, 104, 97, 110>>), WordBoundary>>),
       \* \bpros?\s+and\s+cons?\b
       Cat(<<WordBoundary, Lit(<<112, 114, 111>>), Opt(Chars({115})), Spaces, Lit(<<97, 110, 100>>), Spaces, Lit(<<99, 111, 110>>), Opt(Chars({115})), WordBoundary>>) >>

\* ^(hi|hello|hey|howdy|greetings|good\s*(morning|afternoon|evening)|yo|sup)\b
GREETING_PATTERNS ==
    << Cat(<<LineStart,
             Alt(<<Lit(<<104, 105>>),
                   Lit(<<104, 101, 108, 108, 111>>),
                   Lit(<<104, 101, 121>>),
                   Lit(<<104, 111, 119, 100, 121>>),
                   Lit(<<103, 114, 101, 101, 116, 105, 110, 103, 115>>),
                   Cat(<<Lit(<<103, 111, 111, 100>>), Star(Chars(SpaceChars)),
                       Alt(<<Lit(<<109, 111, 114, 110, 105, 110, 103>>),
                             Lit(<<97, 102, 116, 101, 114, 110, 111, 111, 110>>),
                             Lit(<<101, 118, 101, 110, 105, 110, 103>>)>>)>>),
                   Lit(<<121, 111>>),
                   Lit(<<115, 117, 112>>)>>),
             WordBoundary>>) >>

\* ^(yes|no|yeah|nah|yep|nope|sure|ok|okay|absolutely|definitely|correct|right)\b
YES_NO_PATTERNS ==
    << Cat(<<LineStart,
             Alt(<<Lit(<<121, 101, 115>>),
                   Lit(<<110, 111>>),
                   Lit(<<121, 101, 97, 104>>),
                   Lit(<<110, 97, 104>>),
                   Lit(<<121, 101, 112>>),
                   Lit(<<110, 111, 112, 101>>),
                   Lit(<<115, 117, 114, 101>>),
                   Lit(<<111, 107>>),
                   Lit(<<111, 107, 97, 121>>),
                   Lit(<<97, 98, 115, 111, 108, 117, 116, 101, 108, 121>>),
                   Lit(<<100, 101, 102, 105, 110, 105, 116, 101, 108, 121>>),
                   Lit(<<99, 111, 114, 114, 101, 99, 116>>),
                   Lit(<<114, 105, 103, 104, 116>>)>>),
             WordBoundary>>) >>

Signal(kind, words, count) == [kind |-> kind, words |-> words, count |-> count]

\* [kw for kw in keywords if kw in text]
Found(keywords, text) == SelectSeq(keywords, LAMBDA kw : Contains(text, kw))

\* seq[:n]
Take(seq, n) == SubSeq(seq, 1, Min(n, Len(seq)))

\* any(re.search(pat, text) for pat in patterns)
AnySearch(patterns, text) == \E i \in 1..Len(patterns) : Search(patterns[i], text)

\* any(re.match(pat, text) for pat in patterns)
AnyMatch(patterns, text) == \E i \in 1..Len(patterns) : Match(patterns[i], text)

\* [s.strip() for s in re.split(r'[.!?]+', text) if s.strip()]
Sentences(text) ==
    LET pieces == Runs(text, {46, 33, 63})
        kept == SelectSeq(pieces, LAMBDA s : Strip(s) # <<>>)
    IN  [i \in 1..Len(kept) |-> Strip(kept[i])]

\* the nine tests of classify_query in the order of the code, each with the
\* amount it adds to complex_score and the signal it appends
Checks(text) ==
    LET word_count == Len(Split(text))
        sentences == Sentences(text)
        reasoning_found == Found(REASONING_KEYWORDS, text)
        question_marks == Count(text, 63)
        complaint_found == Found(COMPLAINT_KEYWORDS, text)
    IN  << [fires |-> word_count >= 20, add |-> 2,
            signal |-> Signal("long_query", <<>>, word_count)],
           [fires |-> reasoning_found # <<>>, add |-> 2,
            signal |-> Signal("reasoning_keywords", Take(reasoning_found, 3), 0)],
           [fires |-> question_marks > 1, add |-> 1,
            signal |-> Signal("multiple_questions", <<>>, question_marks)],
           [fires |-> Len(sentences) >= 3, add |-> 1,
            signal |-> Signal("multi_sentence", <<>>, Len(sentences))],
           [fires |-> AnySearch(COMPARISON_PATTERNS, text), add |-> 1,
            signal |-> Signal("comparison_pattern", <<>>, 0)],
           [fires |-> complaint_found # <<>>, add |-> 1,
            signal |-> Signal("complaint_detected", Take(complaint_found, 2), 0)],
           [fires |-> word_count < 8, add |-> -2,
            signal |-> Signal("short_query", <<>>, word_count)],
           [fires |-> AnyMatch(GREETING_PATTERNS, text), add |-> -2,
            signal |-> Signal("greeting_detected", <<>>, 0)],
           [fires |-> AnyMatch(YES_NO_PATTERNS, text), add |-> -1,
            signal |-> Signal("yes_no_response", <<>>, 0)] >>

\* variant: the tests form an if/elif chain, only the first that holds counts
RECURSIVE Accumulate_firstonly(_, _)
Accumulate_firstonly(checks, acc) ==
    IF checks = <<>> THEN acc
    ELSE IF Head(checks).fires
         THEN [complex_score |-> acc.complex_score + Head(checks).add,
               signals |-> Append(acc.signals, Head(checks).signal)]
         ELSE Accumulate_firstonly(Tail(checks), acc)

\* variant: a test that lowers the score is recorded but subtracts nothing
RECURSIVE Accumulate_nopenalty(_, _)
Accumulate_nopenalty(checks, acc) ==
    IF checks = <<>> THEN acc
    ELSE Accumulate_nopenalty(Tail(checks),
             IF Head(checks).fires
             THEN [complex_score |-> acc.complex_score
                                        + (IF Head(checks).add > 0 THEN Head(checks).add ELSE 0),
                   signals |-> Append(acc.signals, Head(checks).signal)]
             ELSE acc)

\* if <test>: complex_score += <add>; signals.append(<signal>), one test after
\* the other
RECURSIVE Accumulate(_, _)
Accumulate(checks, acc) ==
    IF checks = <<>> THEN acc
    ELSE Accumulate(Tail(checks),
             IF Head(checks).fires
             THEN [complex_score |-> acc.complex_score + Head(checks).add,
                   signals |-> Append(acc.signals, Head(checks).signal)]
             ELSE acc)

\* variant: a score equal to the threshold is still simple
Classification_above(complex_score) ==
    IF complex_score > COMPLEX_THRESHOLD THEN "complex" ELSE "simple"

Classification(complex_score) ==
    IF complex_score >= COMPLEX_THRESHOLD THEN "complex" ELSE "simple"

classify_query(query) ==
    LET text == Lower(Strip(query))
        sums == Accumulate(Checks(text), [complex_score |-> 0, signals |-> <<>>])
        classification == Classification(sums.complex_score)
    IN  [done |-> TRUE, classification |-> classification,
         model_used |-> MODELS[classification],
         complex_score |-> sums.complex_score, signals |-> sums.signals]

(***************************************************************************)
(* classify_query as a function of its argument: Init draws the query,     *)
(* Classify applies the function.  The queries are those of the evaluation *)
(* harness (backend/eval_harness.py), texts built from up to MaxPhrases    *)
(* phrases that each trigger one kind of signal, and two greetings.        *)
(***************************************************************************)
MaxPhrases == 3

\* the phrases, joined by single spaces
RouterPhrases ==
    { \* Hi
      <<72, 105>>,
      \* yes
      <<121, 101, 115>>,
      \* explain why
      <<101, 120, 112, 108, 97, 105, 110, 32, 119, 104, 121>>,
      \* better than
      <<98, 101, 116, 116, 101, 114, 32, 116, 104, 97, 110>>,
      \* is it broken?
      <<105, 115, 32, 105, 116, 32, 98, 114, 111, 107, 101, 110, 63>>,
      \* Wait. Now.
      <<87, 97, 105, 116, 46, 32, 78, 111, 119, 46>>,
      \* one two three four five six seven
      <<111, 110, 101, 32, 116, 119, 111, 32, 116, 104, 114, 101, 101, 32, 102, 111, 117, 114, 32, 102, 105, 118, 101, 32, 115, 105, 120, 32, 115, 101, 118, 101, 110>> }

\* TEST_CASES[...]["query"]
HarnessQueries ==
    { \* Hi there!
      <<72, 105, 32, 116, 104, 101, 114, 101, 33>>,
      \* Can you explain the differences between pricing plans and recommend the best one for a startup?
      <<67, 97, 110, 32, 121, 111, 117, 32, 101, 120, 112, 108, 97, 105, 110, 32, 116, 104, 101, 32, 100, 105, 102, 102, 101, 114, 101, 110, 99, 101, 115, 32, 98, 101, 116, 119, 101, 101, 110, 32, 112, 114, 105, 99, 105, 110, 103, 32, 112, 108, 97, 110, 115, 32, 97, 110, 100, 32, 114, 101, 99, 111, 109, 109, 101, 110, 100, 32, 116, 104, 101, 32, 98, 101, 115, 116, 32, 111, 110, 101, 32, 102, 111, 114, 32, 97, 32, 115, 116, 97, 114, 116, 117, 112, 63>>,
      \* What is Clearpath?
      <<87, 104, 97, 116, 32, 105, 115, 32, 67, 108, 101, 97, 114, 112, 97, 116, 104, 63>>,
      \* My account is not working and I'm getting an error when I try to log in. Can you help me troubleshoot?
      <<77, 121, 32, 97, 99, 99, 111, 117, 110, 116, 32, 105, 115, 32, 110, 111, 116, 32, 119, 111, 114, 107, 105, 110, 103, 32, 97, 110, 100, 32, 73, 39, 109, 32, 103, 101, 116, 116, 105, 110, 103, 32, 97, 110, 32, 101, 114, 114, 111, 114, 32, 119, 104, 101, 110, 32, 73, 32, 116, 114, 121, 32, 116, 111, 32, 108, 111, 103, 32, 105, 110, 46, 32, 67, 97, 110, 32, 121, 111, 117, 32, 104, 101, 108, 112, 32, 109, 101, 32, 116, 114, 111, 117, 98, 108, 101, 115, 104, 111, 111, 116, 63>>,
      \* Yes
      <<89, 101, 115>>,
      \* What are the keyboard shortcuts?
      <<87, 104, 97, 116, 32, 97, 114, 101, 32, 116, 104, 101, 32, 107, 101, 121, 98, 111, 97, 114, 100, 32, 115, 104, 111, 114, 116, 99, 117, 116, 115, 63>>,
      \* How much does the Pro plan cost?
      <<72, 111, 119, 32, 109, 117, 99, 104, 32, 100, 111, 101, 115, 32, 116, 104, 101, 32, 80, 114, 111, 32, 112, 108, 97, 110, 32, 99, 111, 115, 116, 63>>,
      \* What is the weather today?
      <<87, 104, 97, 116, 32, 105, 115, 32, 116, 104, 101, 32, 119, 101, 97, 116, 104, 101, 114, 32, 116, 111, 100, 97, 121, 63>>,
      \* Does Clearpath support blockchain?
      <<68, 111, 101, 115, 32, 67, 108, 101, 97, 114, 112, 97, 116, 104, 32, 115, 117, 112, 112, 111, 114, 116, 32, 98, 108, 111, 99, 107, 99, 104, 97, 105, 110, 63>>,
      \* Tell me about quantum computing integration
      <<84, 101, 108, 108, 32, 109, 101, 32, 97, 98, 111, 117, 116, 32, 113, 117, 97, 110, 116, 117, 109, 32, 99, 111, 109, 112, 117, 116, 105, 110, 103, 32, 105, 110, 116, 101, 103, 114, 97, 116, 105, 111, 110>>,
      \* What is the meaning of life?
      <<87, 104, 97, 116, 32, 105, 115, 32, 116, 104, 101, 32, 109, 101, 97, 110, 105, 110, 103, 32, 111, 102, 32, 108, 105, 102, 101, 63>>,
      \* What integrations does Clearpath support?
      <<87, 104, 97, 116, 32, 105, 110, 116, 101, 103, 114, 97, 116, 105, 111, 110, 115, 32, 100, 111, 101, 115, 32, 67, 108, 101, 97, 114, 112, 97, 116, 104, 32, 115, 117, 112, 112, 111, 114, 116, 63>>,
      \* How do I reset my password?
      <<72, 111, 119, 32, 100, 111, 32, 73, 32, 114, 101, 115, 101, 116, 32, 109, 121, 32, 112, 97, 115, 115, 119, 111, 114, 100, 63>> }

\* TEST_CASES R2
PlansQuery ==
    <<67, 97, 110, 32, 121, 111, 117, 32, 101, 120, 112, 108, 97, 105, 110, 32, 116, 104, 101, 32, 100, 105, 102, 102, 101, 114, 101, 110, 99, 101, 115, 32, 98, 101, 116, 119, 101, 101, 110, 32, 112, 114, 105, 99, 105, 110, 103, 32, 112, 108, 97, 110, 115, 32, 97, 110, 100, 32, 114, 101, 99, 111, 109, 109, 101, 110, 100, 32, 116, 104, 101, 32, 98, 101, 115, 116, 32, 111, 110, 101, 32, 102, 111, 114, 32, 97, 32, 115, 116, 97, 114, 116, 117, 112, 63>>

\* a greeting that goes on with a question, and one with spaces around it
GreetingQueries ==
    { \* hey explain why the sync is broken vs working
      <<104, 101, 121, 32, 101, 120, 112, 108, 97, 105, 110, 32, 119, 104, 121, 32, 116, 104, 101, 32, 115, 121, 110, 99, 32, 105, 115, 32, 98, 114, 111, 107, 101, 110, 32, 118, 115, 32, 119, 111, 114, 107, 105, 110, 103>>,
      \*   Good Morning  
      <<32, 32, 71, 111, 111, 100, 32, 77, 111, 114, 110, 105, 110, 103, 32, 32>> }

RECURSIVE Join(_)
Join(phrases) ==
    IF Len(phrases) = 0 THEN <<>>
    ELSE IF Len(phrases) = 1 THEN phrases[1]
    ELSE phrases[1] \o <<32>> \o Join(Tail(phrases))

RouterQueries ==
    HarnessQueries \cup GreetingQueries
        \cup {Join(ps) : ps \in UNION {[1..n -> RouterPhrases] : n \in 0..MaxPhrases}}

\* no retrieve call is made or in progress
RetrievalIdle ==
    /\ encoder = "uncased"
    /\ cache = <<>>
    /\ clock = 0
    /\ lastUse = [key \in {} |-> 0]
    /\ inserted = {}
    /\ stored = [key \in {} |-> None]
    /\ firstRes = [key \in {} |-> <<>>]
    /\ last = NoCall
    /\ pc = [t \in Threads |-> "idle"]
    /\ loc = [t \in Threads |-> IdleLocals]
    /\ cand = <<>>

RetrievalFrame ==
    UNCHANGED <<cache, encoder, clock, lastUse, inserted, stored, firstRes, last, pc, loc, cand>>

InitRouter ==
    /\ RetrievalIdle
    /\ ServiceIdle
    /\ EvaluatorIdle
    /\ asked \in RouterQueries
    /\ routing = NotRouted

Classify ==
    /\ ~routing.done
    /\ routing' = classify_query(asked)
    /\ RetrievalFrame
    /\ ServiceFrame
    /\ UNCHANGED <<asked, answered, evaluation>>

NextRouter == Classify

SpecRouter == InitRouter /\ [][NextRouter]_vars

\* the kinds of the signals the last classification recorded
Kinds == {routing.signals[i].kind : i \in 1..Len(routing.signals)}

(***************************************************************************)
(* C12: classify_query returns "complex" exactly when complex_score >= 2   *)
(* and "simple" otherwise; a score of exactly 2 is complex.                *)
(***************************************************************************)
C12_ThresholdInclusive ==
    routing.done =>
        /\ routing.classification = "complex" <=> routing.complex_score >= 2
        /\ routing.classification = "simple" <=> routing.complex_score < 2

C12_Witness ==
    routing.done /\ routing.complex_score = 2 /\ routing.classification = "complex"

(***************************************************************************)
(* C13: each of the nine signals is recorded exactly when its own trigger  *)
(* holds, whatever the other signals do, at most once, and complex_score   *)
(* is the sum of the fixed weights of the recorded signals.                *)
(***************************************************************************)
C13_Weight ==
    [long_query |-> 2, reasoning_keywords |-> 2, multiple_questions |-> 1,
     multi_sentence |-> 1, comparison_pattern |-> 1, complaint_detected |-> 1,
     short_query |-> -2, greeting_detected |-> -2, yes_no_response |-> -1]

C13_Trigger(kind, text) ==
    CASE kind = "long_query" -> Len(Split(text)) >= 20
      [] kind = "reasoning_keywords" ->
            \E i \in 1..Len(REASONING_KEYWORDS) : Contains(text, REASONING_KEYWORDS[i])
      [] kind = "multiple_questions" -> Count(text, 63) > 1
      [] kind = "multi_sentence" -> Len(Sentences(text)) >= 3
      [] kind = "comparison_pattern" -> AnySearch(COMPARISON_PATTERNS, text)
      [] kind = "complaint_detected" ->
            \E i \in 1..Len(COMPLAINT_KEYWORDS) : Contains(text, COMPLAINT_KEYWORDS[i])
      [] kind = "short_query" -> Len(Split(text)) < 8
      [] kind = "greeting_detected" -> AnyMatch(GREETING_PATTERNS, text)
      [] kind = "yes_no_response" -> AnyMatch(YES_NO_PATTERNS, text)

\* the weights of the recorded signals of the given kinds, added up
RECURSIVE C13_Sum(_)
C13_Sum(kinds) ==
    IF kinds = {} THEN 0
    ELSE LET kind == CHOOSE k \in kinds : TRUE
         IN  C13_Weight[kind] + C13_Sum(kinds \ {kind})

C13_IndependentSignals ==
    routing.done =>
        /\ Kinds \subseteq DOMAIN C13_Weight
        /\ \A kind \in DOMAIN C13_Weight :
               kind \in Kinds <=> C13_Trigger(kind, Lower(Strip(asked)))
        /\ Len(routing.signals) = Cardinality(Kinds)
        /\ routing.complex_score = C13_Sum(Kinds)

C13_Witness ==
    /\ routing.done
    /\ {"reasoning_keywords", "comparison_pattern", "short_query", "greeting_detected"}
           \subseteq Kinds

(***************************************************************************)
(* C14, as stated: the pricing-plans query of the harness is classified    *)
(* complex with both the reasoning-keywords and the long-query signals     *)
(* fired and complex_score >= 4.                                           *)
(***************************************************************************)
C14_LongAndReasoning ==
    (routing.done /\ asked = PlansQuery) =>
        /\ routing.classification = "complex"
        /\ {"reasoning_keywords", "long_query"} \subseteq Kinds
        /\ routing.complex_score >= 4

(***************************************************************************)
(* C14, amended: the pricing-plans query (16 words) is classified complex  *)
(* by the reasoning-keywords signal alone: the long-query signal does not  *)
(* fire and complex_score is exactly 2.                                    *)
(***************************************************************************)
C14_ReasoningOnly ==
    (routing.done /\ asked = PlansQuery) =>
        /\ routing.classification = "complex"
        /\ Kinds = {"reasoning_keywords"}
        /\ routing.complex_score = 2

C14_Witness == routing.done /\ asked = PlansQuery /\ Len(Split(asked)) = 16

(***************************************************************************)
(* C15, as stated: every query whose trimmed, lower-cased text matches the *)
(* leading-greeting pattern is classified simple and routed to             *)
(* llama-3.1-8b-instant.                                                   *)
(***************************************************************************)
IsGreeting == AnyMatch(GREETING_PATTERNS, Lower(Strip(asked)))

C15_GreetingAlwaysSimple ==
    (routing.done /\ IsGreeting) =>
        routing.classification = "simple" /\ routing.model_used = "llama-3.1-8b-instant"

(***************************************************************************)
(* C15, amended: a query that matches the leading-greeting pattern gets    *)
(* the greeting signal, and it is classified simple and routed to          *)
(* llama-3.1-8b-instant exactly when the weights of its other signals add  *)
(* up to less than 4; otherwise it is complex.                             *)
(***************************************************************************)
C15_GreetingSimpleUnlessOutweighed ==
    (routing.done /\ IsGreeting) =>
        /\ "greeting_detected" \in Kinds
        /\ (routing.classification = "simple" /\ routing.model_used = "llama-3.1-8b-instant")
               <=> C13_Sum(Kinds \ {"greeting_detected"}) < 4

C15_Witness ==
    /\ routing.done
    /\ IsGreeting
    /\ "reasoning_keywords" \in Kinds
    /\ routing.classification = "simple"

(***************************************************************************)
(* C16: model_used follows from the classification alone: simple goes with *)
(* llama-3.1-8b-instant, complex with llama-3.3-70b-versatile, and no      *)
(* other pairing is returned.                                              *)
(***************************************************************************)
C16_ModelByClassification ==
    routing.done =>
        \/ routing.classification = "simple" /\ routing.model_used = "llama-3.1-8b-instant"
        \/ routing.classification = "complex"
               /\ routing.model_used = "llama-3.3-70b-versatile"

C16_Witness ==
    /\ routing.done
    /\ routing.classification = "complex"
    /\ routing.model_used = "llama-3.3-70b-versatile"

(***************************************************************************)
(* The response evaluator (backend/evaluator/evaluator.py).  A flag is a   *)
(* record [kind, items, num, den]: the name before the parenthesis of the  *)
(* flag string, the keywords or prices it lists, and for the overlap flag  *)
(* the measured ratio num / den that the string prints as a percentage.    *)
(***************************************************************************)
\*   "i don't know"  "i cannot"  "i'm not sure"
\*   "i do not have access"  "i don't have enough information"  "i'm unable to"
\*   "i am not sure"  "i am unable"  "i cannot provide"
\*   "i don't have information"  "not in the documentation"  "not mentioned in"
\*   "beyond my knowledge"
REFUSAL_PHRASES ==
    << <<105, 32, 100, 111, 110, 39, 116, 32, 107, 110, 111, 119>>,
       <<105, 32, 99, 97, 110, 110, 111, 116>>,
       <<105, 39, 109, 32, 110, 111, 116, 32, 115, 117, 114, 101>>,
       <<105, 32, 100, 111, 32, 110, 111, 116, 32, 104, 97, 118, 101, 32, 97, 99, 99, 101, 115, 115>>,
       <<105, 32, 100, 111, 110, 39, 116, 32, 104, 97, 118, 101, 32, 101, 110, 111, 117, 103, 104, 32, 105, 110, 102, 111, 114, 109, 97, 116, 105, 111, 110>>,
       <<105, 39, 109, 32, 117, 110, 97, 98, 108, 101, 32, 116, 111>>,
       <<105, 32, 97, 109, 32, 110, 111, 116, 32, 115, 117, 114, 101>>,
       <<105, 32, 97, 109, 32, 117, 110, 97, 98, 108, 101>>,
       <<105, 32, 99, 97, 110, 110, 111, 116, 32, 112, 114, 111, 118, 105, 100, 101>>,
       <<105, 32, 100, 111, 110, 39, 116, 32, 104, 97, 118, 101, 32, 105, 110, 102, 111, 114, 109, 97, 116, 105, 111, 110>>,
       <<110, 111, 116, 32, 105, 110, 32, 116, 104, 101, 32, 100, 111, 99, 117, 109, 101, 110, 116, 97, 116, 105, 111, 110>>,
       <<110, 111, 116, 32, 109, 101, 110, 116, 105, 111, 110, 101, 100, 32, 105, 110>>,
       <<98, 101, 121, 111, 110, 100, 32, 109, 121, 32, 107, 110, 111, 119, 108, 101, 100, 103, 101>> >>

\*   "blockchain"  "cryptocurrency"  "nft"  "quantum"  "bitcoin"
\*   "ethereum"  "metaverse"  "web3"  "defi"  "dao"
\*   "solana"  "dogecoin"  "mining"  "token sale"  "ico"
HALLUCINATION_KEYWORDS ==
    << <<98, 108, 111, 99, 107, 99, 104, 97, 105, 110>>,
       <<99, 114, 121, 112, 116, 111, 99, 117, 114, 114, 101, 110, 99, 121>>,
       <<110, 102, 116>>,
       <<113, 117, 97, 110, 116, 117, 109>>,
       <<98, 105, 116, 99, 111, 105, 110>>,
       <<101, 116, 104, 101, 114, 101, 117, 109>>,
       <<109, 101, 116, 97, 118, 101, 114, 115, 101>>,
       <<119, 101, 98, 51>>,
       <<100, 101, 102, 105>>,
       <<100, 97, 111>>,
       <<115, 111, 108, 97, 110, 97>>,
       <<100, 111, 103, 101, 99, 111, 105, 110>>,
       <<109, 105, 110, 105, 110, 103>>,
       <<116, 111, 107, 101, 110, 32, 115, 97, 108, 101>>,
       <<105, 99, 111>> >>

STOPWORDS ==
    \* "a", "an", "the", "is", "are", "was", "were", "be", "been", "being",
    { <<97>>, <<97, 110>>, <<116, 104, 101>>, <<105, 115>>, <<97, 114, 101>>,
      <<119, 97, 115>>, <<119, 101, 114, 101>>, <<98, 101>>,
      <<98, 101, 101, 110>>, <<98, 101, 105, 110, 103>>,
    \* "have", "has", "had", "do", "does", "did", "will", "would", "could",
      <<104, 97, 118, 101>>, <<104, 97, 115>>, <<104, 97, 100>>,
      <<100, 111>>, <<100, 111, 101, 115>>, <<100, 105, 100>>,
      <<119, 105, 108, 108>>, <<119, 111, 117, 108, 100>>,
      <<99, 111, 117, 108, 100>>,
    \* "should", "may", "might", "shall", "can", "need", "must",
      <<115, 104, 111, 117, 108, 100>>, <<109, 97, 121>>,
      <<109, 105, 103, 104, 116>>, <<115, 104, 97, 108, 108>>,
      <<99, 97, 110>>, <<110, 101, 101, 100>>, <<109, 117, 115, 116>>,
    \* "i", "you", "he", "she", "it", "we", "they", "me", "him", "her",
      <<105>>, <<121, 111, 117>>, <<104, 101>>, <<115, 104, 101>>,
      <<105, 116>>, <<119, 101>>, <<116, 104, 101, 121>>, <<109, 101>>,
      <<104, 105, 109>>, <<104, 101, 114>>,
    \* "us", "them", "my", "your", "his", "its", "our", "their",
      <<117, 115>>, <<116, 104, 101, 109>>, <<109, 121>>,
      <<121, 111, 117, 114>>, <<104, 105, 115>>, <<105, 116, 115>>,
      <<111, 117, 114>>, <<116, 104, 101, 105, 114>>,
    \* "this", "that", "these", "those", "what", "which", "who", "whom",
      <<116, 104, 105, 115>>, <<116, 104, 97, 116>>,
      <<116, 104, 101, 115, 101>>, <<116, 104, 111, 115, 101>>,
      <<119, 104, 97, 116>>, <<119, 104, 105, 99, 104>>, <<119, 104, 111>>,
      <<119, 104, 111, 109>>,
    \* "and", "but", "or", "nor", "not", "so", "yet", "both", "either",
      <<97, 110, 100>>, <<98, 117, 116>>, <<111, 114>>, <<110, 111, 114>>,
      <<110, 111, 116>>, <<115, 111>>, <<121, 101, 116>>,
      <<98, 111, 116, 104>>, <<101, 105, 116, 104, 101, 114>>,
    \* "neither", "each", "every", "all", "any", "few", "more", "most",
      <<110, 101, 105, 116, 104, 101, 114>>, <<101, 97, 99, 104>>,
      <<101, 118, 101, 114, 121>>, <<97, 108, 108>>, <<97, 110, 121>>,
      <<102, 101, 119>>, <<109, 111, 114, 101>>, <<109, 111, 115, 116>>,
    \* "other", "some", "such", "no", "only", "own", "same", "than",
      <<111, 116, 104, 101, 114>>, <<115, 111, 109, 101>>,
      <<115, 117, 99, 104>>, <<110, 111>>, <<111, 110, 108, 121>>,
      <<111, 119, 110>>, <<115, 97, 109, 101>>, <<116, 104, 97, 110>>,
    \* "too", "very", "just", "also", "how", "when", "where", "why",
      <<116, 111, 111>>, <<118, 101, 114, 121>>, <<106, 117, 115, 116>>,
      <<97, 108, 115, 111>>, <<104, 111, 119>>, <<119, 104, 101, 110>>,
      <<119, 104, 101, 114, 101>>, <<119, 104, 121>>,
    \* "in", "on", "at", "to", "for", "of", "with", "by", "from",
      <<105, 110>>, <<111, 110>>, <<97, 116>>, <<116, 111>>,
      <<102, 111, 114>>, <<111, 102>>, <<119, 105, 116, 104>>, <<98, 121>>,
      <<102, 114, 111, 109>>,
    \* "up", "about", "into", "through", "during", "before", "after",
      <<117, 112>>, <<97, 98, 111, 117, 116>>, <<105, 110, 116, 111>>,
      <<116, 104, 114, 111, 117, 103, 104>>,
      <<100, 117, 114, 105, 110, 103>>, <<98, 101, 102, 111, 114, 101>>,
      <<97, 102, 116, 101, 114>>,
    \* "above", "below", "between", "under", "again", "further", "then",
      <<97, 98, 111, 118, 101>>, <<98, 101, 108, 111, 119>>,
      <<98, 101, 116, 119, 101, 101, 110>>, <<117, 110, 100, 101, 114>>,
      <<97, 103, 97, 105, 110>>, <<102, 117, 114, 116, 104, 101, 114>>,
      <<116, 104, 101, 110>>,
    \* "once", "here", "there", "if", "because", "as", "until", "while",
      <<111, 110, 99, 101>>, <<104, 101, 114, 101>>,
      <<116, 104, 101, 114, 101>>, <<105, 102>>,
      <<98, 101, 99, 97, 117, 115, 101>>, <<97, 115>>,
      <<117, 110, 116, 105, 108>>, <<119, 104, 105, 108, 101>>,
    \* "based", "provided", "using", "used", "like", "including", "such",
      <<98, 97, 115, 101, 100>>, <<112, 114, 111, 118, 105, 100, 101, 100>>,
      <<117, 115, 105, 110, 103>>, <<117, 115, 101, 100>>,
      <<108, 105, 107, 101>>, <<105, 110, 99, 108, 117, 100, 105, 110, 103>>,
      <<115, 117, 99, 104>>,
    \* "please", "note", "however", "also", "may", "well", "per",
      <<112, 108, 101, 97, 115, 101>>, <<110, 111, 116, 101>>,
      <<104, 111, 119, 101, 118, 101, 114>>, <<97, 108, 115, 111>>,
      <<109, 97, 121>>, <<119, 101, 108, 108>>, <<112, 101, 114>> }

CONTEXT_OVERLAP_THRESHOLD == 30

\* r'\b[a-zA-Z]{3,}\b'
ContentWordPattern ==
    Cat(<<WordBoundary, Chars(Letters), Chars(Letters), Chars(Letters),
          Star(Chars(Letters)), WordBoundary>>)

\* r'\$[\d,]+(?:\.\d{2})?(?:/\w+)?'
PricePattern ==
    Cat(<<Chars({36}), Plus(Chars(Digits \cup {44})),
          Opt(Cat(<<Chars({46}), Chars(Digits), Chars(Digits)>>)),
          Opt(Cat(<<Chars({47}), Plus(Chars(WordChars))>>))>>)

Flag(kind, items, num, den) == [kind |-> kind, items |-> items, num |-> num, den |-> den]

\* " ".join(chunk["text"] for chunk in retrieved_chunks)
RECURSIVE JoinTexts(_)
JoinTexts(retrieved_chunks) ==
    IF Len(retrieved_chunks) = 0 THEN <<>>
    ELSE IF Len(retrieved_chunks) = 1 THEN retrieved_chunks[1].text
    ELSE retrieved_chunks[1].text \o <<32>> \o JoinTexts(Tail(retrieved_chunks))

SetOf(seq) == {seq[i] : i \in 1..Len(seq)}

_extract_content_words(text) == SetOf(FindAll(ContentWordPattern, Lower(text))) \ STOPWORDS

_extract_prices(text) == FindAll(PricePattern, text)

\* a < b for str: the smaller code point at the first difference, or a proper prefix
LexLess(a, b) ==
    \E i \in 1..Len(b) :
        /\ \A j \in 1..(i - 1) : j <= Len(a) /\ a[j] = b[j]
        /\ i > Len(a) \/ a[i] < b[i]

\* sorted(set of str)
Sorted(set) ==
    [k \in 1..Cardinality(set) |->
        CHOOSE x \in set : Cardinality({y \in set : LexLess(y, x)}) = k - 1]

\* variant: the flag lists every price of the response once one is unsourced
_check_contradictory_pricing_all(response, retrieved_chunks) ==
    LET response_prices == SetOf(_extract_prices(response))
        context_prices == SetOf(_extract_prices(JoinTexts(retrieved_chunks)))
    IN  IF response_prices \ context_prices = {} THEN <<>>
        ELSE <<Flag("unsourced_pricing", Sorted(response_prices), 0, 0)>>

\* the flags it contributes: <<>> stands for the None it returns
_check_contradictory_pricing(response, retrieved_chunks) ==
    LET response_prices == SetOf(_extract_prices(response))
        context_prices == SetOf(_extract_prices(JoinTexts(retrieved_chunks)))
        unsourced_prices == response_prices \ context_prices
    IN  IF response_prices = {} THEN <<>>
        ELSE IF unsourced_prices # {}
             THEN <<Flag("unsourced_pricing", Sorted(unsourced_prices), 0, 0)>>
             ELSE <<>>

\* variant: a single passage counts as no context
NoContext_single(retrieved_chunks) == Len(retrieved_chunks) <= 1

\* check 1: len(retrieved_chunks) == 0
NoContext(retrieved_chunks) == Len(retrieved_chunks) = 0

\* variant: the loop over the phrases goes on after a match
RECURSIVE RefusalLoop_nobreak(_, _)
RefusalLoop_nobreak(phrases, response_lower) ==
    IF phrases = <<>> THEN <<>>
    ELSE (IF Contains(response_lower, Head(phrases))
          THEN <<Flag("refusal_detected", <<>>, 0, 0)>> ELSE <<>>)
             \o RefusalLoop_nobreak(Tail(phrases), response_lower)

\* check 2: for phrase in REFUSAL_PHRASES: if phrase in response_lower: append; break
RECURSIVE RefusalLoop(_, _)
RefusalLoop(phrases, response_lower) ==
    IF phrases = <<>> THEN <<>>
    ELSE IF Contains(response_lower, Head(phrases))
         THEN <<Flag("refusal_detected", <<>>, 0, 0)>>
         ELSE RefusalLoop(Tail(phrases), response_lower)

\* check 3: the keyword blacklist
KeywordCheck(response_lower) ==
    LET found_keywords == Found(HALLUCINATION_KEYWORDS, response_lower)
    IN  IF found_keywords # <<>>
        THEN <<Flag("hallucination_keyword", found_keywords, 0, 0)>> ELSE <<>>

\* variant: a response without content words counts as sharing nothing
OverlapCheck_noguard(response, retrieved_chunks) ==
    LET context_words == _extract_content_words(JoinTexts(retrieved_chunks))
        response_words == _extract_content_words(response)
        overlap == response_words \cap context_words
    IN  IF Len(retrieved_chunks) # 0
           /\ (response_words = {}
               \/ 100 * Cardinality(overlap)
                      < CONTEXT_OVERLAP_THRESHOLD * Cardinality(response_words))
        THEN <<Flag("potential_hallucination", <<>>,
                    Cardinality(overlap), Cardinality(response_words))>>
        ELSE <<>>

\* variant: a share equal to the threshold is flagged too
OverlapCheck_inclusive(response, retrieved_chunks) ==
    LET context_words == _extract_content_words(JoinTexts(retrieved_chunks))
        response_words == _extract_content_words(response)
        overlap == response_words \cap context_words
    IN  IF Len(retrieved_chunks) # 0 /\ response_words # {}
           /\ 100 * Cardinality(overlap)
                  <= CONTEXT_OVERLAP_THRESHOLD * Cardinality(response_words)
        THEN <<Flag("potential_hallucination", <<>>,
                    Cardinality(overlap), Cardinality(response_words))>>
        ELSE <<>>

\* check 4: the share of the response's content words found in the context;
\* len(overlap) / len(response_words) < 0.30 decided on the integers
OverlapCheck(response, retrieved_chunks) ==
    LET context_words == _extract_content_words(JoinTexts(retrieved_chunks))
        response_words == _extract_content_words(response)
        overlap == response_words \cap context_words
    IN  IF Len(retrieved_chunks) # 0 /\ response_words # {}
           /\ 100 * Cardinality(overlap)
                  < CONTEXT_OVERLAP_THRESHOLD * Cardinality(response_words)
        THEN <<Flag("potential_hallucination", <<>>,
                    Cardinality(overlap), Cardinality(response_words))>>
        ELSE <<>>

\* variant: only the hallucination checks lower the confidence
Confidence_hallucination(flags) ==
    IF \E i \in 1..Len(flags) :
           flags[i].kind \in {"hallucination_keyword", "potential_hallucination"}
    THEN "low" ELSE "high"

\* confidence = "low" if flags else "high"
Confidence(flags) == IF Len(flags) # 0 THEN "low" ELSE "high"

\* variant: a refusal ends the evaluation, the later checks are not run
evaluate_response_stopatrefusal(response, retrieved_chunks) ==
    LET response_lower == Lower(response)
        refusal == RefusalLoop(REFUSAL_PHRASES, response_lower)
        flags ==
            (IF NoContext(retrieved_chunks) THEN <<Flag("no_context", <<>>, 0, 0)>> ELSE <<>>)
                \o refusal
                \o (IF Len(refusal) # 0 THEN <<>>
                    ELSE KeywordCheck(response_lower)
                             \o OverlapCheck(response, retrieved_chunks)
                             \o (IF Len(retrieved_chunks) # 0
                                 THEN _check_contradictory_pricing(response, retrieved_chunks)
                                 ELSE <<>>))
    IN  [done |-> TRUE, raised |-> "", confidence |-> Confidence(flags), flags |-> flags]

evaluate_response(response, retrieved_chunks) ==
    LET response_lower == Lower(response)
        flags ==
            (IF NoContext(retrieved_chunks) THEN <<Flag("no_context", <<>>, 0, 0)>> ELSE <<>>)
                \o RefusalLoop(REFUSAL_PHRASES, response_lower)
                \o KeywordCheck(response_lower)
                \o OverlapCheck(response, retrieved_chunks)
                \o (IF Len(retrieved_chunks) # 0
                    THEN _check_contradictory_pricing(response, retrieved_chunks)
                    ELSE <<>>)
    IN  [done |-> TRUE, raised |-> "", confidence |-> Confidence(flags), flags |-> flags]

(***************************************************************************)
(* evaluate_response as a function of its arguments: Init draws a response *)
(* of up to MaxSentences sentences and a list of up to MaxChunks retrieved *)
(* passages, Evaluate applies the function.                                *)
(***************************************************************************)
MaxSentences == 2

MaxChunks == 2

\* the sentences of a response, joined by single spaces
ResponseSentences ==
    { \* The Pro plan costs $49/month.
      <<84, 104, 101, 32, 80, 114, 111, 32, 112, 108, 97, 110, 32, 99, 111, 115, 116, 115, 32, 36, 52, 57, 47, 109, 111, 110, 116, 104, 46>>,
      \* The Enterprise plan costs $99/month.
      <<84, 104, 101, 32, 69, 110, 116, 101, 114, 112, 114, 105, 115, 101, 32, 112, 108, 97, 110, 32, 99, 111, 115, 116, 115, 32, 36, 57, 57, 47, 109, 111, 110, 116, 104, 46>>,
      \* I don't have enough information from the documentation to answer that.
      <<73, 32, 100, 111, 110, 39, 116, 32, 104, 97, 118, 101, 32, 101, 110, 111, 117, 103, 104, 32, 105, 110, 102, 111, 114, 109, 97, 116, 105, 111, 110, 32, 102, 114, 111, 109, 32, 116, 104, 101, 32, 100, 111, 99, 117, 109, 101, 110, 116, 97, 116, 105, 111, 110, 32, 116, 111, 32, 97, 110, 115, 119, 101, 114, 32, 116, 104, 97, 116, 46>>,
      \* I cannot provide blockchain advice.
      <<73, 32, 99, 97, 110, 110, 111, 116, 32, 112, 114, 111, 118, 105, 100, 101, 32, 98, 108, 111, 99, 107, 99, 104, 97, 105, 110, 32, 97, 100, 118, 105, 99, 101, 46>>,
      \* Press Ctrl to open shortcuts.
      <<80, 114, 101, 115, 115, 32, 67, 116, 114, 108, 32, 116, 111, 32, 111, 112, 101, 110, 32, 115, 104, 111, 114, 116, 99, 117, 116, 115, 46>> }

\* the fixed answer the prompt asks for when the documentation has none
RefusalSentence ==
    <<73, 32, 100, 111, 110, 39, 116, 32, 104, 97, 118, 101, 32, 101, 110, 111, 117, 103, 104, 32, 105, 110, 102, 111, 114, 109, 97, 116, 105, 111, 110, 32, 102, 114, 111, 109, 32, 116, 104, 101, 32, 100, 111, 99, 117, 109, 101, 110, 116, 97, 116, 105, 111, 110, 32, 116, 111, 32, 97, 110, 115, 119, 101, 114, 32, 116, 104, 97, 116, 46>>

\* the texts of the retrieved passages
PassageTexts ==
    { \* The Pro plan costs $49/month and includes shortcuts.
      <<84, 104, 101, 32, 80, 114, 111, 32, 112, 108, 97, 110, 32, 99, 111, 115, 116, 115, 32, 36, 52, 57, 47, 109, 111, 110, 116, 104, 32, 97, 110, 100, 32, 105, 110, 99, 108, 117, 100, 101, 115, 32, 115, 104, 111, 114, 116, 99, 117, 116, 115, 46>>,
      \* Enterprise pricing is $99/month, billed yearly.
      <<69, 110, 116, 101, 114, 112, 114, 105, 115, 101, 32, 112, 114, 105, 99, 105, 110, 103, 32, 105, 115, 32, 36, 57, 57, 47, 109, 111, 110, 116, 104, 44, 32, 98, 105, 108, 108, 101, 100, 32, 121, 101, 97, 114, 108, 121, 46>>,
      \* Keyboard shortcuts open the command palette.
      <<75, 101, 121, 98, 111, 97, 114, 100, 32, 115, 104, 111, 114, 116, 99, 117, 116, 115, 32, 111, 112, 101, 110, 32, 116, 104, 101, 32, 99, 111, 109, 109, 97, 110, 100, 32, 112, 97, 108, 101, 116, 116, 101, 46>> }

\* "$49/month" and "$99/month"
Price49 == <<36, 52, 57, 47, 109, 111, 110, 116, 104>>

Price99 == <<36, 57, 57, 47, 109, 111, 110, 116, 104>>

\* a passage as retrieve returns it
Doc(text) ==
    [chunk_id |-> 0, document_name |-> "pricing.pdf", text |-> text,
     similarity_score |-> 50000]

\* responses sharing 3 of 10 and 2 of 7 content words with the shortcuts passage,
\* and one without a content word
OverlapResponses ==
    { \* Keyboard shortcuts open alpha bravo delta gamma omega sigma kappa
      <<75, 101, 121, 98, 111, 97, 114, 100, 32, 115, 104, 111, 114, 116, 99, 117, 116, 115, 32, 111, 112, 101, 110, 32, 97, 108, 112, 104, 97, 32, 98, 114, 97, 118, 111, 32, 100, 101, 108, 116, 97, 32, 103, 97, 109, 109, 97, 32, 111, 109, 101, 103, 97, 32, 115, 105, 103, 109, 97, 32, 107, 97, 112, 112, 97>>,
      \* Keyboard shortcuts alpha bravo delta gamma omega
      <<75, 101, 121, 98, 111, 97, 114, 100, 32, 115, 104, 111, 114, 116, 99, 117, 116, 115, 32, 97, 108, 112, 104, 97, 32, 98, 114, 97, 118, 111, 32, 100, 101, 108, 116, 97, 32, 103, 97, 109, 109, 97, 32, 111, 109, 101, 103, 97>>,
      \* It is so.
      <<73, 116, 32, 105, 115, 32, 115, 111, 46>> }

Responses ==
    {Join(ss) : ss \in UNION {[1..n -> ResponseSentences] : n \in 0..MaxSentences}}
        \cup OverlapResponses

ChunkLists ==
    UNION {[1..n -> {Doc(text) : text \in PassageTexts}] : n \in 0..MaxChunks}

InitEvaluator ==
    /\ RetrievalIdle
    /\ ServiceIdle
    /\ RouterIdle
    /\ answered \in [response : Responses, retrieved_chunks : ChunkLists]
    /\ evaluation = NotEvaluated

Evaluate ==
    /\ ~evaluation.done
    /\ evaluation' = evaluate_response(answered.response, answered.retrieved_chunks)
    /\ RetrievalFrame
    /\ ServiceFrame
    /\ UNCHANGED <<asked, routing, answered>>

NextEvaluator == Evaluate

SpecEvaluator == InitEvaluator /\ [][NextEvaluator]_vars

\* the flags of one kind in the last evaluation
FlagsOf(kind) == SelectSeq(evaluation.flags, LAMBDA f : f.kind = kind)

(***************************************************************************)
(* C17: the confidence is "low" exactly when the flag list is non-empty    *)
(* and "high" exactly when it is empty.                                    *)
(***************************************************************************)
C17_LowIffFlagged ==
    evaluation.done =>
        /\ evaluation.confidence = "low" <=> Len(evaluation.flags) > 0
        /\ evaluation.confidence = "high" <=> Len(evaluation.flags) = 0

C17_Witness ==
    /\ evaluation.done
    /\ Len(evaluation.flags) = 1
    /\ evaluation.flags[1].kind = "unsourced_pricing"
    /\ evaluation.confidence = "low"

(***************************************************************************)
(* C18: the flag no_context is in the flag list exactly when the list of   *)
(* retrieved passages is empty, whatever the response.                     *)
(***************************************************************************)
C18_NoContextIffEmpty ==
    evaluation.done =>
        (Len(FlagsOf("no_context")) > 0 <=> Len(answered.retrieved_chunks) = 0)

C18_Witness ==
    /\ evaluation.done
    /\ Len(answered.retrieved_chunks) = 0
    /\ answered.response # <<>>
    /\ Len(FlagsOf("no_context")) = 1

(***************************************************************************)
(* C19: for any passage list, a response whose lower-cased text contains a *)
(* refusal phrase (the fixed "I don't have enough information from the     *)
(* documentation to answer that." among them) gets the flag                *)
(* refusal_detected exactly once and the confidence low.                   *)
(***************************************************************************)
C19_RefusalOnce ==
    (/\ evaluation.done
     /\ \E i \in 1..Len(REFUSAL_PHRASES) :
            Contains(Lower(answered.response), REFUSAL_PHRASES[i]))
        => Len(FlagsOf("refusal_detected")) = 1 /\ evaluation.confidence = "low"

C19_Witness ==
    /\ evaluation.done
    /\ answered.response = RefusalSentence
    /\ Len(answered.retrieved_chunks) > 0
    /\ Len(FlagsOf("refusal_detected")) = 1

(***************************************************************************)
(* C20: with a non-empty passage list, unsourced_pricing is flagged        *)
(* exactly when some price token of the response is none of the price      *)
(* tokens of the joined passage texts, and the flag lists exactly those    *)
(* tokens; with an empty passage list or a response without price tokens   *)
(* it is never flagged.                                                    *)
(***************************************************************************)
C20_Absent ==
    SetOf(_extract_prices(answered.response))
        \ SetOf(_extract_prices(JoinTexts(answered.retrieved_chunks)))

C20_UnsourcedPricing ==
    evaluation.done =>
        LET flagged == FlagsOf("unsourced_pricing")
        IN  /\ Len(answered.retrieved_chunks) > 0 =>
                   /\ Len(flagged) = (IF C20_Absent # {} THEN 1 ELSE 0)
                   /\ \A i \in 1..Len(flagged) :
                          /\ SetOf(flagged[i].items) = C20_Absent
                          /\ Len(flagged[i].items) = Cardinality(C20_Absent)
            /\ (\/ Len(answered.retrieved_chunks) = 0
                \/ _extract_prices(answered.response) = <<>>) => Len(flagged) = 0

C20_Witness ==
    /\ evaluation.done
    /\ SetOf(_extract_prices(answered.response)) = {Price49, Price99}
    /\ SetOf(_extract_prices(JoinTexts(answered.retrieved_chunks))) = {Price49}
    /\ Len(FlagsOf("unsourced_pricing")) = 1
    /\ FlagsOf("unsourced_pricing")[1].items = <<Price99>>

(***************************************************************************)
(* C21: potential_hallucination is flagged exactly when the passage list   *)
(* is non-empty, the response has a content word, and the share of its     *)
(* content words found in the passages is strictly below 0.30; a share of  *)
(* exactly 3 in 10 is not flagged, and the flag carries the measured share.*)
(***************************************************************************)
C21_ResponseWords == _extract_content_words(answered.response)

C21_Shared ==
    C21_ResponseWords \cap _extract_content_words(JoinTexts(answered.retrieved_chunks))

C21_OverlapBelowThreshold ==
    evaluation.done =>
        LET flagged == FlagsOf("potential_hallucination")
        IN  /\ Len(flagged) > 0 <=>
                   /\ Len(answered.retrieved_chunks) > 0
                   /\ C21_ResponseWords # {}
                   /\ 10 * Cardinality(C21_Shared) < 3 * Cardinality(C21_ResponseWords)
            /\ \A i \in 1..Len(flagged) :
                   /\ flagged[i].num = Cardinality(C21_Shared)
                   /\ flagged[i].den = Cardinality(C21_ResponseWords)

C21_Witness ==
    /\ evaluation.done
    /\ Len(answered.retrieved_chunks) > 0
    /\ Cardinality(C21_ResponseWords) = 10
    /\ Cardinality(C21_Shared) = 3
    /\ Len(FlagsOf("potential_hallucination")) = 0

(***************************************************************************)
(* C22: the flag list holds each kind of flag at most once, in the order   *)
(* no_context, refusal_detected, hallucination_keyword,                    *)
(* potential_hallucination, unsourced_pricing, and each kind is present    *)
(* exactly when its own check fires, whatever the other checks found.      *)
(***************************************************************************)
C22_Order ==
    <<"no_context", "refusal_detected", "hallucination_keyword",
      "potential_hallucination", "unsourced_pricing">>

C22_Rank(kind) == CHOOSE i \in 1..Len(C22_Order) : C22_Order[i] = kind

C22_Fires(kind) ==
    CASE kind = "no_context" -> Len(answered.retrieved_chunks) = 0
      [] kind = "refusal_detected" ->
            \E i \in 1..Len(REFUSAL_PHRASES) :
                Contains(Lower(answered.response), REFUSAL_PHRASES[i])
      [] kind = "hallucination_keyword" ->
            \E i \in 1..Len(HALLUCINATION_KEYWORDS) :
                Contains(Lower(answered.response), HALLUCINATION_KEYWORDS[i])
      [] kind = "potential_hallucination" ->
            /\ Len(answered.retrieved_chunks) > 0
            /\ C21_ResponseWords # {}
            /\ 10 * Cardinality(C21_Shared) < 3 * Cardinality(C21_ResponseWords)
      [] kind = "unsourced_pricing" ->
            Len(answered.retrieved_chunks) > 0 /\ C20_Absent # {}

C22_OrderedIndependentFlags ==
    evaluation.done =>
        /\ Len(evaluation.flags) <= 5
        /\ \A i \in 1..Len(evaluation.flags) :
               evaluation.flags[i].kind \in SetOf(C22_Order)
        /\ \A i, j \in 1..Len(evaluation.flags) :
               i < j => C22_Rank(evaluation.flags[i].kind) < C22_Rank(evaluation.flags[j].kind)
        /\ \A kind \in SetOf(C22_Order) : Len(FlagsOf(kind)) > 0 <=> C22_Fires(kind)

C22_Witness ==
    /\ evaluation.done
    /\ [i \in 1..Len(evaluation.flags) |-> evaluation.flags[i].kind]
           = <<"refusal_detected", "hallucination_keyword", "potential_hallucination",
               "unsourced_pricing">>

(***************************************************************************)
(* C24: for an empty response text the checks 2 to 5 add no flag: the flag *)
(* list is [no_context] with confidence low when the passage list is empty *)
(* and [] with confidence high otherwise.                                  *)
(***************************************************************************)
C24_EmptyResponse ==
    (evaluation.done /\ answered.response = <<>>) =>
        IF Len(answered.retrieved_chunks) = 0
        THEN /\ evaluation.flags = <<Flag("no_context", <<>>, 0, 0)>>
             /\ evaluation.confidence = "low"
        ELSE /\ evaluation.flags = <<>>
             /\ evaluation.confidence = "high"

C24_Witness ==
    /\ evaluation.done
    /\ answered.response = <<>>
    /\ Len(answered.retrieved_chunks) > 0
    /\ evaluation.confidence = "high"

(***************************************************************************)
(* evaluate_response on arguments of any shape.  The response is a Python  *)
(* value, [tag |-> "str", of |-> text] or None; a passage is a record that *)
(* may lack its text.  response.lower() of line 115 and chunk["text"] of   *)
(* lines 134 and 83 raise on what they cannot read.                        *)
(***************************************************************************)
PyStr(text) == [tag |-> "str", of |-> text]

\* a passage record without its text
NoTextDoc == [chunk_id |-> 0, document_name |-> "pricing.pdf", similarity_score |-> 50000]

Raises(exception) ==
    [done |-> TRUE, raised |-> exception, confidence |-> "", flags |-> <<>>]

evaluate_response_any(response, retrieved_chunks) ==
    IF response.tag # "str" THEN Raises("AttributeError")
    ELSE IF \E i \in 1..Len(retrieved_chunks) : "text" \notin DOMAIN retrieved_chunks[i]
         THEN Raises("KeyError")
         ELSE evaluate_response(response.of, retrieved_chunks)

AnyResponses == {None} \cup {PyStr(text) : text \in Responses}

AnyChunkLists ==
    UNION {[1..n -> {Doc(text) : text \in PassageTexts} \cup {NoTextDoc}] : n \in 0..MaxChunks}

InitAny ==
    /\ RetrievalIdle
    /\ ServiceIdle
    /\ RouterIdle
    /\ answered \in [response : AnyResponses, retrieved_chunks : AnyChunkLists]
    /\ evaluation = NotEvaluated

EvaluateAny ==
    /\ ~evaluation.done
    /\ evaluation' = evaluate_response_any(answered.response, answered.retrieved_chunks)
    /\ RetrievalFrame
    /\ ServiceFrame
    /\ UNCHANGED <<asked, routing, answered>>

NextAny == EvaluateAny

SpecAny == InitAny /\ [][NextAny]_vars

(***************************************************************************)
(* C25: evaluate_response never raises, whatever it is given: a missing    *)
(* response text and a passage record without text included.               *)
(***************************************************************************)
C25_NeverRaises == evaluation.raised = ""

(***************************************************************************)
(* C30: the cache is transparent.  Every call that returns gives exactly   *)
(* what an uncached retriever gives by embedding the call's own query text *)
(* and searching the index, whatever calls came before, earlier queries    *)
(* that differ only in letter case or surrounding whitespace included.     *)
(***************************************************************************)
Uncached(query) == FilterLoop(IndexSearch(embed_query(query)), Corpus)

MAX_MEMORY == 3

MaxRequests == 2

MaxStreams == 2

MaxStreamChunks == 1

ConvIds == {"s1", "s2"}

Message(role, content, turn) == [role |-> role, content |-> content, turn |-> turn]

\* s[-n:]
LastN(s, n) == IF Len(s) <= n THEN s ELSE SubSeq(s, Len(s) - n + 1, Len(s))

\* the messages stored for a conversation (none: the id is not a key yet)
Hist(conv_id) == IF conv_id \in DOMAIN memory THEN heap[memory[conv_id]] ELSE <<>>

\* conversation_memory[conv_id]: a missing id gets a new empty list
GetOrCreate(st, conv_id) ==
    IF conv_id \in DOMAIN st.memory
    THEN st
    ELSE [heap |-> Append(st.heap, <<>>),
          memory |-> st.memory @@ (conv_id :> (Len(st.heap) + 1))]

\* _get_history: a copy of the stored list
_get_history(st, conv_id) ==
    LET made == GetOrCreate(st, conv_id)
    IN  [st |-> made, value |-> made.heap[made.memory[conv_id]]]

Pair(question, answer, turn) ==
    <<Message("user", question, turn), Message("assistant", answer, turn)>>

\* variant: the history is never trimmed
_update_history_notrim(st, conv_id, question, answer, turn) ==
    LET made == GetOrCreate(st, conv_id)
        history == made.memory[conv_id]
    IN  [made EXCEPT !.heap[history] = @ \o Pair(question, answer, turn)]

_update_history(st, conv_id, question, answer, turn) ==
    LET made == GetOrCreate(st, conv_id)
        history == made.memory[conv_id]
        appended == made.heap[history] \o Pair(question, answer, turn)
        grown == [made EXCEPT !.heap[history] = appended]
    IN  IF Len(appended) > MAX_MEMORY * 2
        THEN [heap |-> Append(grown.heap, LastN(appended, MAX_MEMORY * 2)),
              memory |-> [grown.memory EXCEPT ![conv_id] = Len(grown.heap) + 1]]
        ELSE grown

\* log_request: one entry appended (token counts and latency left out)
log_request(entries, query, routed, evaluated, num_sources, turn) ==
    Append(entries, [query |-> query, classification |-> routed.classification,
                     model_used |-> routed.model_used, confidence |-> evaluated.confidence,
                     flags |-> evaluated.flags, num_sources |-> num_sources, turn |-> turn])

\* what the generation call does: it raises, or returns a text, or returns a
\* message without content
GenRaises == [tag |-> "raises", of |-> <<>>]

\* a request as the handler holds it: pc is "done" (the handler returned),
\* "raised" (an exception left it), "streaming" (the event generator is before
\* the end of the completion stream), "metadata" (suspended at the yield of the
\* metadata event), "closed" (the generator is exhausted), or a line of
\* _update_history
Request(kind, conv_id, question, r, routed, history) ==
    [kind |-> kind, conv_id |-> conv_id, question |-> question, pc |-> "",
     retrieved |-> r.results, cache_hit |-> r.cache_hit, routing |-> routed,
     history |-> history, response |-> None, evaluation |-> NotEvaluated,
     events |-> <<>>, ref |-> 0, tmp |-> <<>>]

\* variant: the turn is stored before the generation call
_run_pipeline_updatefirst(sys, question, conv_id, gen, turn) ==
    LET r == retrieve(sys.od, question, FALSE)
        routed == classify_query(question)
        got == _get_history(sys.st, conv_id)
        req == Request("pipeline", conv_id, question, r, routed, got.value)
        evaluated == evaluate_response_any(gen, r.results)
        kept == _update_history(got.st, conv_id, question,
                                IF gen.tag = "str" THEN gen.of ELSE <<>>, turn)
    IN  IF gen = GenRaises \/ evaluated.raised # ""
        THEN [ret |-> r, st |-> kept, logs |-> sys.logs,
              req |-> [req EXCEPT !.pc = "raised",
                                  !.response = IF gen = GenRaises THEN None ELSE gen,
                                  !.evaluation = IF gen = GenRaises THEN NotEvaluated
                                                 ELSE evaluated]]
        ELSE [ret |-> r, st |-> kept,
              logs |-> log_request(sys.logs, question, routed, evaluated,
                                   Len(r.results), turn),
              req |-> [req EXCEPT !.pc = "done", !.response = gen,
                                  !.evaluation = evaluated]]

\* _run_pipeline on the system sys = [od, st, logs] (cache, histories, log);
\* gen is what chat_completion does.  An exception of chat_completion or of
\* evaluate_response leaves the function at once.
_run_pipeline(sys, question, conv_id, gen, turn) ==
    LET r == retrieve(sys.od, question, FALSE)
        routed == classify_query(question)
        got == _get_history(sys.st, conv_id)
        req == Request("pipeline", conv_id, question, r, routed, got.value)
        evaluated == evaluate_response_any(gen, r.results)
    IN  IF gen = GenRaises \/ evaluated.raised # ""
        THEN [ret |-> r, st |-> got.st, logs |-> sys.logs,
              req |-> [req EXCEPT !.pc = "raised",
                                  !.response = IF gen = GenRaises THEN None ELSE gen,
                                  !.evaluation = IF gen = GenRaises THEN NotEvaluated
                                                 ELSE evaluated]]
        ELSE [ret |-> r,
              st |-> _update_history(got.st, conv_id, question, gen.of, turn),
              logs |-> log_request(sys.logs, question, routed, evaluated,
                                   Len(r.results), turn),
              req |-> [req EXCEPT !.pc = "done", !.response = gen,
                                  !.evaluation = evaluated]]

\* chat_stream up to the return of the EventSourceResponse: the generator has
\* not run yet
chat_stream(sys, question, conv_id) ==
    LET r == retrieve(sys.od, question, FALSE)
        routed == classify_query(question)
        got == _get_history(sys.st, conv_id)
    IN  [ret |-> r, st |-> got.st, logs |-> sys.logs,
         req |-> [Request("stream", conv_id, question, r, routed, got.value)
                      EXCEPT !.pc = "streaming", !.response = PyStr(<<>>)]]

\* variant: the metadata event is sent before evaluation, logging and update
event_generator_end_early(sys, req, turn) ==
    [st |-> sys.st, logs |-> sys.logs,
     req |-> [req EXCEPT !.pc = "metadata", !.events = Append(@, "metadata")]]

\* event_generator from the end of the completion stream to the yield of the
\* metadata event
event_generator_end(sys, req, turn) ==
    LET evaluated == evaluate_response(req.response.of, req.retrieved)
    IN  [st |-> _update_history(sys.st, req.conv_id, req.question, req.response.of, turn),
         logs |-> log_request(sys.logs, req.question, req.routing, evaluated,
                              Len(req.retrieved), turn),
         req |-> [req EXCEPT !.pc = "metadata", !.evaluation = evaluated,
                             !.events = Append(@, "metadata")]]

(***************************************************************************)
(* The service taking requests.  Handlers are coroutines on one event      *)
(* loop: /query and /chat run _run_pipeline without suspending; a          *)
(* /chat/stream request is suspended at every yield of its event           *)
(* generator, where other requests may run.  Conversation "s1" may have    *)
(* earlier turns.  The encoder is the one embed.py pins, an uncased one.   *)
(***************************************************************************)
\* "Hi " and "Pro plan price?"
ServiceQueries == { <<72, 105, 32>>, <<80, 114, 111, 32, 112, 108, 97, 110, 32, 112, 114, 105, 99, 101, 63>> }

\* the streaming requests all belong to one conversation
StreamConvIds == {"s1"}

\* "Pro plan price?"
StreamQueries == { <<80, 114, 111, 32, 112, 108, 97, 110, 32, 112, 114, 105, 99, 101, 63>> }

\* what the generation returns when it returns a text
GenTexts ==
    { \* The Pro plan costs $49/month.
      <<84, 104, 101, 32, 80, 114, 111, 32, 112, 108, 97, 110, 32, 99, 111, 115, 116, 115, 32, 36, 52, 57, 47, 109, 111, 110, 116, 104, 46>>,
      \* I cannot provide blockchain advice.
      <<73, 32, 99, 97, 110, 110, 111, 116, 32, 112, 114, 111, 118, 105, 100, 101, 32, 98, 108, 111, 99, 107, 99, 104, 97, 105, 110, 32, 97, 100, 118, 105, 99, 101, 46>> }

\* the pieces a completion stream delivers: "The Pro plan costs $49/month."
GenPieces == { <<84, 104, 101, 32, 80, 114, 111, 32, 112, 108, 97, 110, 32, 99, 111, 115, 116, 115, 32, 36, 52, 57, 47, 109, 111, 110, 116, 104, 46>> }

GenOutcomes == {GenRaises} \cup {PyStr(text) : text \in GenTexts}

WarmTurnCounts == {0, MAX_MEMORY - 1, MAX_MEMORY}

\* the earlier turns of conversation "s1", numbered 1 - n .. 0
WarmTurn(i) == [turn |-> i, question |-> <<113, 300 + i>>, answer |-> <<97, 300 + i>>]

RECURSIVE Flatten(_)
Flatten(pairs) ==
    IF pairs = <<>> THEN <<>>
    ELSE Pair(Head(pairs).question, Head(pairs).answer, Head(pairs).turn)
             \o Flatten(Tail(pairs))

InitHistories(n) ==
    /\ turns = [conv \in (IF n = 0 THEN {} ELSE {"s1"}) |-> [i \in 1..n |-> WarmTurn(i - n)]]
    /\ heap = IF n = 0 THEN <<>> ELSE <<Flatten(turns["s1"])>>
    /\ memory = [conv \in DOMAIN turns |-> 1]
    /\ logs = <<>>

InitService ==
    /\ RouterIdle
    /\ EvaluatorIdle
    /\ encoder = "uncased"
    /\ cache = <<>>
    /\ clock = 0
    /\ lastUse = [key \in {} |-> 0]
    /\ inserted = {}
    /\ stored = [key \in {} |-> None]
    /\ firstRes = [key \in {} |-> <<>>]
    /\ last = NoCall
    /\ pc = [t \in Threads |-> "idle"]
    /\ loc = [t \in Threads |-> IdleLocals]
    /\ cand = <<>>
    /\ \E n \in WarmTurnCounts : InitHistories(n)
    /\ reqs = <<>>

System == [od |-> cache, st |-> [heap |-> heap, memory |-> memory], logs |-> logs]

ServiceOther == UNCHANGED <<encoder, pc, loc, cand, asked, routing, answered, evaluation>>

RetrievalSame == UNCHANGED <<cache, clock, lastUse, inserted, stored, firstRes, last>>

\* the turn a request has completed, as the history records it
Turn(req, turn) == [turn |-> turn, question |-> req.question, answer |-> req.response.of]

Completed(req, turn) ==
    turns' = IF req.conv_id \in DOMAIN turns
             THEN [turns EXCEPT ![req.conv_id] = Append(@, Turn(req, turn))]
             ELSE turns @@ (req.conv_id :> <<Turn(req, turn)>>)

\* POST /query and POST /chat
RunPipeline(conv_id, raw, gen) ==
    /\ Len(reqs) < MaxRequests
    /\ LET question == Strip(raw)
           turn == Len(reqs) + 1
       IN  \E out \in {_run_pipeline(System, question, conv_id, gen, turn)} :
           /\ Finished(question, FALSE, out.ret)
           /\ heap' = out.st.heap
           /\ memory' = out.st.memory
           /\ logs' = out.logs
           /\ reqs' = Append(reqs, out.req)
           /\ IF out.req.pc = "done" THEN Completed(out.req, turn) ELSE UNCHANGED turns
    /\ ServiceOther

\* POST /chat/stream
StreamBegin(conv_id, raw) ==
    /\ Len(reqs) < MaxStreams
    /\ LET question == Strip(raw)
       IN  \E out \in {chat_stream(System, question, conv_id)} :
           /\ Finished(question, FALSE, out.ret)
           /\ heap' = out.st.heap
           /\ memory' = out.st.memory
           /\ logs' = out.logs
           /\ reqs' = Append(reqs, out.req)
    /\ UNCHANGED turns
    /\ ServiceOther

\* the completion stream delivers a piece: it is yielded as a chunk event
StreamChunk(i, piece) ==
    /\ i \in 1..Len(reqs)
    /\ reqs[i].pc = "streaming"
    /\ Len(reqs[i].events) < MaxStreamChunks
    /\ reqs' = [reqs EXCEPT ![i].events = Append(@, "chunk"),
                            ![i].response = PyStr(@.of \o piece)]
    /\ UNCHANGED <<heap, memory, logs, turns>>
    /\ RetrievalSame
    /\ ServiceOther

\* the generation call or the completion stream raises
StreamRaise(i) ==
    /\ i \in 1..Len(reqs)
    /\ reqs[i].pc = "streaming"
    /\ reqs' = [reqs EXCEPT ![i].pc = "raised"]
    /\ UNCHANGED <<heap, memory, logs, turns>>
    /\ RetrievalSame
    /\ ServiceOther

\* the completion stream ends: evaluation, log, history, metadata event
StreamEnd(i) ==
    /\ i \in 1..Len(reqs)
    /\ reqs[i].pc = "streaming"
    /\ \E out \in {event_generator_end(System, reqs[i], i)} :
           /\ heap' = out.st.heap
           /\ memory' = out.st.memory
           /\ logs' = out.logs
           /\ reqs' = [reqs EXCEPT ![i] = out.req]
           /\ Completed(out.req, i)
    /\ RetrievalSame
    /\ ServiceOther

\* the generator is resumed after the metadata event and yields the done event
StreamDone(i) ==
    /\ i \in 1..Len(reqs)
    /\ reqs[i].pc = "metadata"
    /\ reqs' = [reqs EXCEPT ![i].pc = "closed", ![i].events = Append(@, "done")]
    /\ UNCHANGED <<heap, memory, logs, turns>>
    /\ RetrievalSame
    /\ ServiceOther

NextService ==
    \E conv_id \in ConvIds, raw \in ServiceQueries, gen \in GenOutcomes :
        RunPipeline(conv_id, raw, gen)

SpecService == InitService /\ [][NextService]_vars

NextStream ==
    \/ \E conv_id \in StreamConvIds, raw \in StreamQueries : StreamBegin(conv_id, raw)
    \/ \E i \in 1..MaxStreams, piece \in GenPieces : StreamChunk(i, piece)
    \/ \E i \in 1..MaxStreams : StreamRaise(i)
    \/ \E i \in 1..MaxStreams : StreamEnd(i)
    \/ \E i \in 1..MaxStreams : StreamDone(i)

SpecStream == InitService /\ [][NextStream]_vars

(***************************************************************************)
(* C23: for a fixed corpus, index and embedding function, two requests in  *)
(* a row with the same query and the same response text give identical     *)
(* passages, routing and evaluation, although the first misses the cache   *)
(* and the second hits it.                                                 *)
(***************************************************************************)
C23_SameRun(i) ==
    /\ reqs[i].pc = "done" /\ reqs[i + 1].pc = "done"
    /\ reqs[i].question = reqs[i + 1].question
    /\ reqs[i].response = reqs[i + 1].response
    /\ ~reqs[i].cache_hit /\ reqs[i + 1].cache_hit

C23_RoundTrip ==
    \A i \in 1..(Len(reqs) - 1) :
        C23_SameRun(i) =>
            /\ reqs[i + 1].retrieved = reqs[i].retrieved
            /\ reqs[i + 1].routing = reqs[i].routing
            /\ reqs[i + 1].evaluation = reqs[i].evaluation

\* the repeated run retrieved passages and its evaluation raised a flag
C23_Witness ==
    \E i \in 1..(Len(reqs) - 1) :
        /\ C23_SameRun(i)
        /\ reqs[i + 1].retrieved # <<>>
        /\ reqs[i + 1].evaluation.flags # <<>>
        /\ reqs[i + 1].evaluation = reqs[i].evaluation

(***************************************************************************)
(* C26: after every completed _update_history the stored history of that   *)
(* conversation holds at most 6 messages, namely the most recent up-to-3   *)
(* question/answer pairs in chronological order, user then assistant; the  *)
(* histories of the other conversations are unchanged.                     *)
(***************************************************************************)
TurnsOf(conv_id) == IF conv_id \in DOMAIN turns THEN turns[conv_id] ELSE <<>>

C26_Updated(conv_id) == TurnsOf(conv_id)' # TurnsOf(conv_id)

C26_Step ==
    \A conv_id \in ConvIds :
        IF C26_Updated(conv_id)
        THEN /\ Len(Hist(conv_id)') <= MAX_MEMORY * 2
             /\ Hist(conv_id)' = Flatten(LastN(TurnsOf(conv_id)', MAX_MEMORY))
             /\ \A k \in 1..Len(Hist(conv_id)') :
                    Hist(conv_id)'[k].role = IF k % 2 = 1 THEN "user" ELSE "assistant"
        ELSE Hist(conv_id)' = Hist(conv_id)

C26_HistoryWindow == [][C26_Step]_vars

\* a fourth turn has pushed the oldest pair out while the other conversation
\* keeps its own turn
C26_Witness ==
    /\ Len(TurnsOf("s1")) > MAX_MEMORY
    /\ Len(Hist("s1")) = MAX_MEMORY * 2
    /\ Hist("s1")[1].turn = TurnsOf("s1")[Len(TurnsOf("s1")) - MAX_MEMORY + 1].turn
    /\ Len(Hist("s2")) = 2

(***************************************************************************)
(* C28: in _run_pipeline the evaluator receives the very passage list that *)
(* retrieve returned for this request, and the history is updated only     *)
(* after generation and evaluation have completed: when the generation     *)
(* call fails the failure propagates, the conversation's history messages  *)
(* are unchanged and no log entry is written.                              *)
(***************************************************************************)
C28_New == reqs'[Len(reqs')]

C28_Step ==
    (Len(reqs') = Len(reqs) + 1 /\ C28_New.kind = "pipeline") =>
        /\ C28_New.retrieved = last'.results
        /\ IF C28_New.response = None
           THEN /\ C28_New.pc = "raised"
                /\ \A conv_id \in ConvIds : Hist(conv_id)' = Hist(conv_id)
                /\ logs' = logs
           ELSE /\ C28_New.pc = "done"
                /\ C28_New.evaluation =
                       evaluate_response(C28_New.response.of, last'.results)
                /\ \E conv_id \in ConvIds :
                       /\ conv_id = C28_New.conv_id
                       /\ Hist(conv_id)' =
                              LastN(Hist(conv_id) \o Pair(C28_New.question,
                                                          C28_New.response.of, Len(reqs')),
                                    MAX_MEMORY * 2)
                /\ Len(logs') = Len(logs) + 1

C28_UpdateAfterGeneration == [][C28_Step]_vars

\* a request whose generation failed, on a conversation with earlier turns,
\* after a request that was logged
C28_Witness ==
    /\ Len(reqs) = 2
    /\ reqs[1].pc = "done"
    /\ reqs[2].pc = "raised" /\ reqs[2].response = None /\ reqs[2].retrieved # <<>>
    /\ Len(Hist(reqs[2].conv_id)) = MAX_MEMORY * 2
    /\ Len(logs) = 1

(***************************************************************************)
(* C29: a /chat/stream request whose generation completes emits zero or    *)
(* more chunk events, then exactly one metadata event, then exactly one    *)
(* done event; evaluation, logging and the history update all happen after *)
(* the last chunk event and before the metadata event, and the history     *)
(* passed to generation does not contain the current question.             *)
(***************************************************************************)
C29_Chunks(n) == [k \in 1..n |-> "chunk"]

C29_Logged(i) == Cardinality({k \in 1..Len(logs) : logs[k].turn = i})

C29_Stored(i) ==
    \E k \in 1..Len(Hist(reqs[i].conv_id)) : Hist(reqs[i].conv_id)[k].turn = i

C29_Stream(i) ==
    /\ \A k \in 1..Len(reqs[i].history) : reqs[i].history[k].turn # i
    /\ \E n \in 0..Len(reqs[i].events) :
          CASE reqs[i].pc \in {"streaming", "raised"} ->
                   /\ reqs[i].events = C29_Chunks(n)
                   /\ ~reqs[i].evaluation.done
                   /\ C29_Logged(i) = 0
                   /\ ~C29_Stored(i)
            [] reqs[i].pc = "metadata" ->
                   /\ reqs[i].events = C29_Chunks(n) \o <<"metadata">>
                   /\ reqs[i].evaluation.done
                   /\ C29_Logged(i) = 1
                   /\ C29_Stored(i)
            [] reqs[i].pc = "closed" ->
                   /\ reqs[i].events = C29_Chunks(n) \o <<"metadata", "done">>
                   /\ reqs[i].evaluation.done
                   /\ C29_Logged(i) = 1
                   /\ C29_Stored(i)

C29_StreamOrder ==
    \A i \in 1..Len(reqs) : reqs[i].kind = "stream" => C29_Stream(i)

\* a stream with a chunk is closed; it was given the earlier turns and another
\* stream of the same conversation completed while it was suspended
C29_Witness ==
    /\ Len(reqs) = 2
    /\ reqs[1].pc = "closed" /\ reqs[1].events = <<"chunk", "metadata", "done">>
    /\ reqs[1].history # <<>>
    /\ reqs[2].pc = "closed" /\ reqs[2].events = <<"metadata", "done">>
    /\ TurnsOf("s1")[Len(TurnsOf("s1"))].turn = 1

(***************************************************************************)
(* _update_history run by two threads at once, statement by statement: no  *)
(* lock is taken in main.py.  Each request has its question and answer and *)
(* is about to call _update_history; ref is its local `history`, tmp the   *)
(* slice of line 135 before it is stored.                                  *)
(***************************************************************************)
UpdateLines == {"L131", "L132", "L133", "L134", "L135", "L135store"}

\* the call _update_history(conv_id, question, answer) about to start
UpdateCall(conv_id, question, answer) ==
    [Request("pipeline", conv_id, question, [results |-> <<>>, cache_hit |-> FALSE],
             NotRouted, <<>>)
         EXCEPT !.pc = "L131", !.response = PyStr(answer)]

InitHistoryThreads ==
    /\ RouterIdle
    /\ EvaluatorIdle
    /\ RetrievalIdle
    /\ \E n \in WarmTurnCounts : InitHistories(n)
    /\ \E first \in ConvIds, second \in ConvIds :
          reqs = << UpdateCall(first, <<72, 105>>, <<84, 104, 101, 32, 80, 114, 111, 32, 112, 108, 97, 110, 32, 99, 111, 115, 116, 115, 32, 36, 52, 57, 47, 109, 111, 110, 116, 104, 46>>),
                    UpdateCall(second, <<80, 114, 111, 32, 112, 108, 97, 110, 32, 112, 114, 105, 99, 101, 63>>, <<73, 32, 99, 97, 110, 110, 111, 116, 32, 112, 114, 111, 118, 105, 100, 101, 32, 98, 108, 111, 99, 107, 99, 104, 97, 105, 110, 32, 97, 100, 118, 105, 99, 101, 46>>) >>

HistoryThreadFrame ==
    /\ RetrievalFrame
    /\ UNCHANGED <<asked, routing, answered, evaluation, logs>>

\* history = conversation_memory[conv_id]
U_L131(i) ==
    /\ reqs[i].pc = "L131"
    /\ \E made \in {GetOrCreate([heap |-> heap, memory |-> memory], reqs[i].conv_id)} :
          /\ heap' = made.heap
          /\ memory' = made.memory
          /\ reqs' = [reqs EXCEPT ![i].pc = "L132", ![i].ref = made.memory[reqs[i].conv_id]]
    /\ UNCHANGED turns
    /\ HistoryThreadFrame

\* history.append({"role": "user", "content": question})
U_L132(i) ==
    /\ reqs[i].pc = "L132"
    /\ heap' = [heap EXCEPT ![reqs[i].ref] = Append(@, Message("user", reqs[i].question, i))]
    /\ reqs' = [reqs EXCEPT ![i].pc = "L133"]
    /\ UNCHANGED <<memory, turns>>
    /\ HistoryThreadFrame

\* history.append({"role": "assistant", "content": answer})
U_L133(i) ==
    /\ reqs[i].pc = "L133"
    /\ heap' = [heap EXCEPT ![reqs[i].ref] =
                                Append(@, Message("assistant", reqs[i].response.of, i))]
    /\ reqs' = [reqs EXCEPT ![i].pc = "L134"]
    /\ UNCHANGED <<memory, turns>>
    /\ HistoryThreadFrame

\* if len(history) > MAX_MEMORY * 2: (otherwise the call returns)
U_L134(i) ==
    /\ reqs[i].pc = "L134"
    /\ IF Len(heap[reqs[i].ref]) > MAX_MEMORY * 2
       THEN /\ reqs' = [reqs EXCEPT ![i].pc = "L135"]
            /\ UNCHANGED turns
       ELSE /\ reqs' = [reqs EXCEPT ![i].pc = "done"]
            /\ Completed(reqs[i], i)
    /\ UNCHANGED <<heap, memory>>
    /\ HistoryThreadFrame

\* history[-(MAX_MEMORY * 2):], the right-hand side of line 135
U_L135(i) ==
    /\ reqs[i].pc = "L135"
    /\ reqs' = [reqs EXCEPT ![i].pc = "L135store",
                            ![i].tmp = LastN(heap[reqs[i].ref], MAX_MEMORY * 2)]
    /\ UNCHANGED <<heap, memory, turns>>
    /\ HistoryThreadFrame

\* conversation_memory[conv_id] = the slice; the call returns
U_L135store(i) ==
    /\ reqs[i].pc = "L135store"
    /\ heap' = Append(heap, reqs[i].tmp)
    /\ memory' = [memory EXCEPT ![reqs[i].conv_id] = Len(heap) + 1]
    /\ reqs' = [reqs EXCEPT ![i].pc = "done", ![i].tmp = <<>>]
    /\ Completed(reqs[i], i)
    /\ HistoryThreadFrame

NextHistoryThreads ==
    \/ \E i \in 1..2 : U_L131(i)
    \/ \E i \in 1..2 : U_L132(i)
    \/ \E i \in 1..2 : U_L133(i)
    \/ \E i \in 1..2 : U_L134(i)
    \/ \E i \in 1..2 : U_L135(i)
    \/ \E i \in 1..2 : U_L135store(i)

SpecHistoryThreads == InitHistoryThreads /\ [][NextHistoryThreads]_vars

(***************************************************************************)
(* C27: under concurrent pipeline invocations on one conversation id the   *)
(* append-then-trim of the history behaves atomically: once the updates    *)
(* have returned, no completed pair among the 3 most recent is lost, no    *)
(* pair is split and the stored history is not longer than 6 messages.     *)
(***************************************************************************)
C27_Whole(history) ==
    /\ Len(history) % 2 = 0
    /\ \A k \in 1..Len(history) :
          k % 2 = 1 =>
              /\ history[k].role = "user"
              /\ history[k + 1].role = "assistant"
              /\ history[k + 1].turn = history[k].turn

C27_Kept(conv_id) ==
    \A j \in 1..Len(LastN(TurnsOf(conv_id), MAX_MEMORY)) :
        \E k \in 1..Len(Hist(conv_id)) :
            Hist(conv_id)[k].turn = LastN(TurnsOf(conv_id), MAX_MEMORY)[j].turn

C27_AtomicAppendTrim ==
    (\A i \in 1..Len(reqs) : reqs[i].pc \notin UpdateLines) =>
        \A conv_id \in ConvIds :
            /\ Len(Hist(conv_id)) <= MAX_MEMORY * 2
            /\ C27_Whole(Hist(conv_id))
            /\ C27_Kept(conv_id)

\* the three ways the claim fails
C27_Split == (\A i \in 1..Len(reqs) : reqs[i].pc = "done") /\ ~C27_Whole(Hist("s1"))

C27_Lost == (\A i \in 1..Len(reqs) : reqs[i].pc = "done") /\ ~C27_Kept("s1")

====
